---- MODULE Spec2Model ----
(***************************************************************************)
(* PromptPress DOCX export (src/app/api/docx/route.ts): conversion of the  *)
(* KaTeX math elements of an HTML document to OMML, placeholder tokens,    *)
(* and the splice of the OMML fragments into the serialized document.     *)
(*                                                                         *)
(* Strings are sequences of chunks; a chunk is a TLA+ string standing for  *)
(* a run of characters that the program's searches and regular             *)
(* expressions treat as one unit (a tag, an element, a token, a special    *)
(* character).  A search for a literal such as "<w:r" is a search for a    *)
(* chunk that starts with that literal.  The JavaScript value null is      *)
(* NULL, the empty string is << >>.                                        *)
(***************************************************************************)
EXTENDS Integers, Sequences, FiniteSets, TLC

NULL == <<"(null)">>

\* JavaScript truthiness of a string-or-null value.
Truthy(s) == s # NULL /\ s # <<>>

\* Number of top-level nodes of the HTML document that is exported.
MaxNodes == 2

Includes(s, set) == \E i \in 1..Len(s) : s[i] \in set

RECURSIVE Flatten(_)
Flatten(ss) == IF ss = <<>> THEN <<>> ELSE Head(ss) \o Flatten(Tail(ss))

Count(s, c) == Cardinality({i \in 1..Len(s) : s[i] = c})

\* String.prototype.indexOf(c, from) over chunks, 1-based; 0 is "not found".
IndexOf(s, set, from) ==
  IF \E i \in from..Len(s) : s[i] \in set
  THEN CHOOSE i \in from..Len(s) : s[i] \in set /\ \A j \in from..(i - 1) : s[j] \notin set
  ELSE 0

\* String.prototype.lastIndexOf(c, from) over chunks, 1-based; 0 is "not found".
LastIndexOf(s, set, from) ==
  IF \E i \in 1..from : i <= Len(s) /\ s[i] \in set
  THEN CHOOSE i \in 1..from : i <= Len(s) /\ s[i] \in set
                              /\ \A j \in (i + 1)..from : j > Len(s) \/ s[j] \notin set
  ELSE 0

(* ------------------------------ text helpers --------------------------- *)

ZeroWidthChars == {"U+200B", "U+FEFF", "U+00AD"}
LoneSurrogates == {"U+D800"}
ControlChars == {"U+0007"}
WhiteSpace == {" ", "U+00A0", "U+FEFF"}

stripZeroWidth(value) == SelectSeq(value, LAMBDA c : c \notin ZeroWidthChars)

stripUnpairedSurrogates(value) == SelectSeq(value, LAMBDA c : c \notin LoneSurrogates)

sanitizeXmlText(value) ==
  SelectSeq(stripUnpairedSurrogates(stripZeroWidth(value)), LAMBDA c : c \notin ControlChars)

\* .replace(/&nbsp;/g, " ").replace(/ /g, " ").replace(/\s+/g, " ")
RECURSIVE CollapseSpaces(_)
CollapseSpaces(s) ==
  IF Len(s) < 2 THEN s
  ELSE IF s[1] = " " /\ s[2] = " " THEN CollapseSpaces(Tail(s))
  ELSE <<s[1]>> \o CollapseSpaces(Tail(s))

normalizeText(value) ==
  LET clean == sanitizeXmlText(value)
      spaced == [i \in 1..Len(clean) |->
                   IF clean[i] \in {"&nbsp;", "U+00A0"} THEN " " ELSE clean[i]]
  IN CollapseSpaces(spaced)

\* String.prototype.trim()
RECURSIVE TrimLeft(_)
TrimLeft(s) == IF s # <<>> /\ Head(s) \in WhiteSpace THEN TrimLeft(Tail(s)) ELSE s

RECURSIVE TrimRight(_)
TrimRight(s) ==
  IF s # <<>> /\ s[Len(s)] \in WhiteSpace THEN TrimRight(SubSeq(s, 1, Len(s) - 1)) ELSE s

Trim(s) == TrimRight(TrimLeft(s))

(* ------------------------------- MathML -------------------------------- *)

MI == "<mi>x</mi>"
MFRAC == "<mfrac><mn>1</mn><mn>2</mn></mfrac>"
MO_FENCE == "<mo fence=\"true\">(</mo>"
MO_DATAFENCE == "<mo data-fence=\"true\">(</mo>"
MO_PLAIN == "<mo>(</mo>"
MO_INVISIBLE == "<mo>U+2061</mo>"
ANNOTATION == "<annotation encoding=\"application/x-tex\">x</annotation>"
SEMANTICS_OPEN == "<semantics>"
SEMANTICS_CLOSE == "</semantics>"
MTEXT_MFRAC == "<mtext><mfrac><mn>1</mn><mn>2</mn></mfrac></mtext>"
MI_12 == "<mi>12</mi>"

\* The rewrite of one chunk by the replace chain; "" is a removed chunk.
preCleanChunk(c) ==
  IF c = ANNOTATION THEN ""
  ELSE IF c \in {SEMANTICS_OPEN, SEMANTICS_CLOSE} THEN ""
  ELSE IF c = MO_INVISIBLE THEN ""
  ELSE IF c = MO_FENCE THEN MO_PLAIN
  ELSE IF c = MTEXT_MFRAC THEN MI_12
  ELSE c

preCleanMathMlForOmml(mathML) ==
  SelectSeq([i \in 1..Len(mathML) |-> preCleanChunk(mathML[i])], LAMBDA c : c # "")

\* /<mo[^>]*fence=\"true\"[^>]*>\s*([\[\]\(\)\{\}])\s*<\/mo>/gi
FenceDelimiterChunks == {MO_FENCE, MO_DATAFENCE}

stripFenceDelimiters(mathML) == SelectSeq(mathML, LAMBDA c : c \notin FenceDelimiterChunks)

\* /<mfrac\b/i.test(...)
HasMfrac(mathML) == Includes(mathML, {MFRAC})

(* -------------------------------- OMML --------------------------------- *)

XML_DECL == "<?xml version=\"1.0\"?>"
OMATH_NS == "<m:oMath xmlns:m=\"http://schemas.openxmlformats.org/officeDocument/2006/math\">"
OMATH == "<m:oMath>"
OMATH_CLOSE == "</m:oMath>"
M_RUN == "<m:r><m:t>x</m:t></m:r>"
M_FRACTION == "<m:f><m:num/><m:den/></m:f>"
M_FUNC == "<m:func><m:fName/><m:e/></m:func>"
OMATHPARA == "<m:oMathPara>"
OMATHPARA_CLOSE == "</m:oMathPara>"

\* value.includes("<m:f"): every chunk that starts with these four characters.
FractionMarked == {M_FRACTION, M_FUNC}
IncludesMF(omml) == omml # NULL /\ Includes(omml, FractionMarked)

\* value.includes("<m:oMathPara")
IncludesMathPara(omml) == Includes(omml, {OMATHPARA})

\* /^\s*<\?xml[^>]*\?>\s*/ on a string of chunks
stripXmlDeclaration(omml) ==
  IF TrimLeft(omml) # <<>> /\ Head(TrimLeft(omml)) = XML_DECL
  THEN TrimLeft(Tail(TrimLeft(omml)))
  ELSE omml

finalizeOmmlString(omml) ==
  LET noDecl == stripXmlDeclaration(omml)
      noNs == [i \in 1..Len(noDecl) |-> IF noDecl[i] = OMATH_NS THEN OMATH ELSE noDecl[i]]
  IN Trim(noNs)

\* Outcomes of the external converter mml2omml: an exception or its output.
THROWN == <<"(throw)">>
RawOmmls ==
  { <<>>,
    <<XML_DECL, OMATH_NS, M_RUN, OMATH_CLOSE>>,
    <<OMATH_NS, M_FRACTION, OMATH_CLOSE>>,
    <<OMATH_NS, M_FUNC, OMATH_CLOSE>>,
    <<OMATHPARA, OMATH_NS, M_RUN, OMATH_CLOSE, OMATHPARA_CLOSE>> }
ConverterOutcomes == RawOmmls \cup {THROWN}

\* What the parse and the repair passes of postProcessOmml do to the text of
\* a fragment: the fragment parses and is serialized again ("ok"), is not
\* parseable ("null"), a pass throws ("throw"), or a pass removes the
\* subtree that holds the fraction ("lose").
PostOutcomes == {"ok", "null", "throw", "lose"}

postProcessOmml(raw, po) ==
  IF po = "throw" THEN THROWN
  ELSE IF po = "null" THEN NULL
  ELSE LET noDecl == stripXmlDeclaration(raw)
           kept == IF po = "lose"
                   THEN SelectSeq(noDecl, LAMBDA c : c # M_FRACTION)
                   ELSE noDecl
       IN Trim(kept)

\* run() without "?? raw": null when the fragment does not parse.
RunConverterNoFallback(c, po) ==
  IF c = THROWN \/ postProcessOmml(c, po) = THROWN THEN THROWN
  ELSE IF postProcessOmml(c, po) = NULL THEN NULL
  ELSE finalizeOmmlString(postProcessOmml(c, po))

\* run() of tryMathMlToOmml: the converter, the repair, the finalization.
RunConverter(c, po) ==
  IF c = THROWN THEN THROWN
  ELSE LET post == postProcessOmml(c, po)
       IN IF post = THROWN THEN THROWN
          ELSE finalizeOmmlString(IF post = NULL THEN c ELSE post)

\* The catch of tryMathMlToOmml: an exception of run() becomes null.
TryCatchNoCatch(r) == r
TryCatch(r) == IF r = THROWN THEN NULL ELSE r

(* -------------------------------- LaTeX -------------------------------- *)

\* LaTeX source is a sequence of tokens.  The replacement strings of the
\* environment rules are written with String.raw and two backslashes, so
\* the tokens they produce start with two backslashes.
TEX_FRAC == "\\frac{"
TEX_LEFT == "\\left"
TEX_RIGHT == "\\right"
TEX_BIGL == "\\bigl"
TEX_BIGR == "\\bigr"
TEX_DISPLAYSTYLE == "\\displaystyle"
TEX_BEGIN_PMATRIX == "\\begin{pmatrix}"
TEX_END_PMATRIX == "\\end{pmatrix}"
TEX_BEGIN_MATRIX == "\\begin{matrix}"
TEX_END_MATRIX == "\\end{matrix}"
RAW_LEFT == "\\\\left"
RAW_RIGHT == "\\\\right"
RAW_BEGIN_MATRIX == "\\\\begin{matrix}"
RAW_END_MATRIX == "\\\\end{matrix}"
BACKSLASH == "\\"

BackslashTokens ==
  { TEX_FRAC, TEX_LEFT, TEX_RIGHT, TEX_BIGL, TEX_BIGR, TEX_DISPLAYSTYLE,
    TEX_BEGIN_PMATRIX, TEX_END_PMATRIX, TEX_BEGIN_MATRIX, TEX_END_MATRIX,
    RAW_LEFT, RAW_RIGHT, RAW_BEGIN_MATRIX, RAW_END_MATRIX, BACKSLASH }

\* value.includes("\\")
IncludesBackslash(tex) == Includes(tex, BackslashTokens)

stripLeftRight(tex) ==
  SelectSeq([i \in 1..Len(tex) |->
               IF tex[i] \in {TEX_LEFT, TEX_RIGHT} THEN ""
               ELSE IF tex[i] \in {RAW_LEFT, RAW_RIGHT} THEN BACKSLASH
               ELSE tex[i]],
            LAMBDA c : c # "")

\* .replace(/\\begin\{pmatrix\}([\s\S]*?)\\end\{pmatrix\}/g, String.raw`...`)
RECURSIVE RewritePmatrix(_)
RewritePmatrix(tex) ==
  LET b == IndexOf(tex, {TEX_BEGIN_PMATRIX}, 1)
      e == IF b = 0 THEN 0 ELSE IndexOf(tex, {TEX_END_PMATRIX}, b + 1)
  IN IF b = 0 \/ e = 0 THEN tex
     ELSE SubSeq(tex, 1, b - 1)
          \o <<RAW_LEFT, "(", RAW_BEGIN_MATRIX>>
          \o SubSeq(tex, b + 1, e - 1)
          \o <<RAW_END_MATRIX, RAW_RIGHT, ")">>
          \o RewritePmatrix(SubSeq(tex, e + 1, Len(tex)))

normalizeDocxLatex(tex) ==
  LET noStyle == SelectSeq(tex, LAMBDA c : c # TEX_DISPLAYSTYLE)
      sized == [i \in 1..Len(noStyle) |->
                  IF noStyle[i] = TEX_BIGL THEN TEX_LEFT
                  ELSE IF noStyle[i] = TEX_BIGR THEN TEX_RIGHT
                  ELSE noStyle[i]]
  IN RewritePmatrix(sized)

\* /\\begin\{(?:bmatrix|pmatrix|Bmatrix|vmatrix|Vmatrix|matrix|smallmatrix)\}/
HasMatrixLike(tex) == tex # NULL /\ Includes(tex, {TEX_BEGIN_PMATRIX, TEX_BEGIN_MATRIX})

\* /\\frac\s*\{/.test(tex)
HasFracTex(tex) == Includes(tex, {TEX_FRAC})

(* ----------------------------- math elements --------------------------- *)

\* A KaTeX element of the HTML: display is the katex-display class (or
\* display="block"), mathml the serialized <math> descendant, annotation the
\* text of its TeX annotation, title its title attribute, text its
\* textContent; NULL where the element has none.
LONG_TEXT == "(5000 characters)"
PARSE_ERROR == "ParseError:"

extractMathMlFromKatex(e) == e.mathml

extractLatexFromKatex(e) ==
  LET texFromAnnotation == IF e.annotation = NULL THEN NULL ELSE Trim(e.annotation)
      fromTitle == IF e.title = NULL THEN NULL ELSE Trim(e.title)
      text == Trim(e.text)
  IN IF Truthy(texFromAnnotation) THEN texFromAnnotation
     ELSE IF Truthy(fromTitle) /\ IncludesBackslash(fromTitle)
             /\ ~Includes(fromTitle, {LONG_TEXT}) /\ Head(fromTitle) # PARSE_ERROR
          THEN fromTitle
     ELSE IF Truthy(text) /\ IncludesBackslash(text) THEN text
     ELSE NULL

\* Outcomes of katex.renderToString followed by the <math> match.
KatexOutcomes(mls) == mls \cup {THROWN, NULL}

\* The catch of texToMathMl.
texToMathMl(k) == IF k = THROWN THEN NULL ELSE k

(* ----------------------- buildOmmlFromElement -------------------------- *)

\* The external call the conversion of the current element waits for.
Idle ==
  [k |-> "none", stage |-> "", attempt |-> 0, src |-> NULL, ml |-> NULL,
   cleaned |-> NULL, first |-> NULL]

\* tryMathMlToOmml(mathML) up to its first call of the converter.
ConvCall(stage, mathML) ==
  [k |-> "conv", stage |-> stage, attempt |-> 1, src |-> mathML,
   ml |-> preCleanMathMlForOmml(mathML), cleaned |-> preCleanMathMlForOmml(mathML),
   first |-> NULL]

KatexCall(stage, tex) ==
  [k |-> "katex", stage |-> stage, attempt |-> 0, src |-> NULL, ml |-> tex,
   cleaned |-> NULL, first |-> NULL]

Return(omml) == [pend |-> Idle, ret |-> omml, thrown |-> FALSE]
Raise == [pend |-> Idle, ret |-> NULL, thrown |-> TRUE]
Await(call) == [pend |-> call, ret |-> NULL, thrown |-> FALSE]

MathMLFromDom(e) ==
  IF HasMatrixLike(extractLatexFromKatex(e)) THEN NULL ELSE extractMathMlFromKatex(e)

\* Lines 1306-1312: the embedded MathML as the last strategy.
FromAnyAgain(e) ==
  IF Truthy(extractMathMlFromKatex(e)) THEN Await(ConvCall("any", extractMathMlFromKatex(e)))
  ELSE Return(NULL)

FromAny(e) ==
  LET mathMLAny == extractMathMlFromKatex(e)
  IN IF Truthy(mathMLAny) /\ mathMLAny # MathMLFromDom(e)
     THEN Await(ConvCall("any", mathMLAny))
     ELSE Return(NULL)

\* Lines 1294-1303: the retry of the regeneration without \left and \right.
AfterRegen(e) ==
  LET tex == extractLatexFromKatex(e)
      normalized == normalizeDocxLatex(tex)
      stripped == stripLeftRight(normalized)
  IN IF HasFracTex(tex) /\ stripped # normalized
     THEN Await(KatexCall("alt", stripped))
     ELSE FromAny(e)

\* Lines 1284-1288: the regeneration of MathML from the normalized LaTeX.
FromTex(e) ==
  LET tex == extractLatexFromKatex(e)
  IN IF Truthy(tex) THEN Await(KatexCall("regen", normalizeDocxLatex(tex)))
     ELSE FromAny(e)

\* What buildOmmlFromElement does with the result of a tryMathMlToOmml.
AfterTry(e, stage, omml) ==
  IF stage = "dom" THEN (IF Truthy(omml) THEN Return(omml) ELSE FromTex(e))
  ELSE IF stage = "regen"
  THEN (IF Truthy(omml) /\ (~HasFracTex(extractLatexFromKatex(e)) \/ IncludesMF(omml))
        THEN Return(omml) ELSE AfterRegen(e))
  ELSE IF stage = "alt" THEN (IF Truthy(omml) THEN Return(omml) ELSE FromAny(e))
  ELSE (IF Truthy(omml) THEN Return(omml) ELSE Return(NULL))

\* What buildOmmlFromElement does with the result of a texToMathMl.
AfterKatex(e, stage, regenerated) ==
  IF Truthy(regenerated) THEN Await(ConvCall(stage, regenerated))
  ELSE IF stage = "regen" THEN AfterRegen(e)
  ELSE FromAny(e)

\* Lines 1267-1282: buildOmmlFromElement up to its first external call.
buildOmmlFromElement(e) ==
  IF Truthy(MathMLFromDom(e)) THEN Await(ConvCall("dom", MathMLFromDom(e)))
  ELSE FromTex(e)

\* tryMathMlToOmml from the return of a converter call (outcome c of
\* mml2omml, outcome po of the repair): it returns v, calls the converter
\* again ("retry", v the first result), or lets an exception through.
TryResult(kind, v) == [kind |-> kind, v |-> v]

tryMathMlToOmmlAlwaysRetry(p, c, po) ==
  LET r == TryCatch(RunConverter(c, po))
  IN IF r = THROWN THEN TryResult("throw", NULL)
     ELSE IF r = NULL THEN TryResult("return", NULL)
     ELSE IF p.attempt = 1
     THEN (IF ~HasMfrac(p.cleaned) \/ IncludesMF(r) THEN TryResult("return", r)
           ELSE TryResult("retry", r))
     ELSE TryResult("return", IF r # <<>> THEN r ELSE p.first)

tryMathMlToOmml(p, c, po) ==
  LET r == TryCatch(RunConverter(c, po))
  IN IF r = THROWN THEN TryResult("throw", NULL)
     ELSE IF r = NULL THEN TryResult("return", NULL)
     ELSE IF p.attempt = 1
     THEN (IF ~HasMfrac(p.cleaned) \/ IncludesMF(r) THEN TryResult("return", r)
           ELSE IF stripFenceDelimiters(p.cleaned) = p.cleaned THEN TryResult("return", r)
           ELSE TryResult("retry", r))
     ELSE TryResult("return", IF r # <<>> THEN r ELSE p.first)

\* buildOmmlFromElement from the return of a converter call to its next
\* external call or its return.
AfterConverter(e, p, c, po) ==
  LET t == tryMathMlToOmml(p, c, po)
  IN IF t.kind = "throw" THEN Raise
     ELSE IF t.kind = "retry"
     THEN Await([p EXCEPT !.attempt = 2, !.ml = stripFenceDelimiters(p.cleaned),
                          !.first = t.v])
     ELSE AfterTry(e, p.stage, t.v)

\* The entry of the call log for a converter call that is not the last of
\* its tryMathMlToOmml.
PENDING == <<"(pending)">>

(* ------------------------- document generation ------------------------- *)

PadWidth == 6

\* String(n).padStart(width, "0")
RECURSIVE padStart(_, _)
padStart(str, width) == IF Len(str) >= width THEN str ELSE padStart("0" \o str, width)

Token(n) == "__MATH_" \o padStart(ToString(n), PadWidth) \o "__"

\* new TextRun({ text, bold, italics, font }) as far as the serializer reads it.
TextRun(text, bold, code) == [text |-> text, bold |-> bold, code |-> code]

textRunFromNode(text, bold, code) == TextRun(sanitizeXmlText(text), bold, code)

\* createMathPlaceholder after buildOmmlFromElement returned omml: the new
\* context and the runs handed back (none for null).
createMathPlaceholderSameId(ctx, e, omml) ==
  IF ~Truthy(omml) THEN [ctx |-> ctx, runs |-> <<>>]
  ELSE [ctx |-> [nextId |-> ctx.nextId,
                 replacements |-> Append(ctx.replacements,
                    [token |-> Token(ctx.nextId), omml |-> omml, displayMode |-> e.display])],
        runs |-> <<TextRun(<<Token(ctx.nextId)>>, FALSE, FALSE)>>]

createMathPlaceholder(ctx, e, omml) ==
  IF ~Truthy(omml) THEN [ctx |-> ctx, runs |-> <<>>]
  ELSE [ctx |-> [nextId |-> ctx.nextId + 1,
                 replacements |-> Append(ctx.replacements,
                    [token |-> Token(ctx.nextId), omml |-> omml, displayMode |-> e.display])],
        runs |-> <<TextRun(<<Token(ctx.nextId)>>, FALSE, FALSE)>>]

\* The fallback of inlineFromNodes (1363-1366) and blockFromNode (1456-1458).
FallbackText(e) ==
  IF extractLatexFromKatex(e) # NULL THEN extractLatexFromKatex(e) ELSE e.text

FallbackRuns(e, bold) ==
  IF Trim(FallbackText(e)) # <<>> THEN <<textRunFromNode(FallbackText(e), bold, TRUE)>>
  ELSE <<>>

\* The katex branch of inlineFromNodes / blockFromNode for one element whose
\* conversion returned omml; w is where the element stands: "inline" in a
\* paragraph (bold inside <strong>), "block" as a block, "nested" in a table
\* that is the child of a table cell (its blocks are not Paragraphs and are
\* dropped by the cell loop, lines 1503-1508).
KatexBranch(ctx, e, bold, omml) ==
  LET made == createMathPlaceholder(ctx, e, omml)
  IN IF made.runs # <<>> THEN made
     ELSE [ctx |-> made.ctx, runs |-> FallbackRuns(e, bold)]

\* The text branch: blockFromNode 1438-1446, inlineFromNodes 1350-1355.
TextBranch(raw, bold) ==
  LET text == normalizeText(raw)
  IN IF text = <<>> THEN <<>> ELSE <<textRunFromNode(text, bold, FALSE)>>

\* A paragraph is added to the section only for a non-empty list of runs
\* that is kept by the enclosing block.
AddParagraph(paras, w, runs) ==
  IF w = "nested" \/ runs = <<>> THEN paras ELSE Append(paras, runs)

(* ---------------------- serialization (Packer) ------------------------- *)

W_R == "<w:r>"
W_R_CLOSE == "</w:r>"
W_RPR == "<w:rPr>"
W_RPR_CLOSE == "</w:rPr>"
W_RFONTS == "<w:rFonts w:ascii=\"Consolas\"/>"
W_BOLD == "<w:b/>"
W_T == "<w:t xml:space=\"preserve\">"
W_T_CLOSE == "</w:t>"
W_DOCUMENT == "<w:document xmlns:w=\"http://schemas.openxmlformats.org/wordprocessingml/2006/main\">"
W_DOCUMENT_M == "<w:document xmlns:w=\"http://schemas.openxmlformats.org/wordprocessingml/2006/main\" xmlns:m=\"http://schemas.openxmlformats.org/officeDocument/2006/math\">"

RunXml(r) ==
  <<W_R>>
  \o (IF r.bold \/ r.code
      THEN <<W_RPR>> \o (IF r.bold THEN <<W_BOLD>> ELSE <<>>)
           \o (IF r.code THEN <<W_RFONTS>> ELSE <<>>) \o <<W_RPR_CLOSE>>
      ELSE <<>>)
  \o <<W_T>> \o r.text \o <<W_T_CLOSE, W_R_CLOSE>>

ParagraphXml(runs) ==
  <<"<w:p>", "<w:pPr/>">> \o Flatten([i \in 1..Len(runs) |-> RunXml(runs[i])]) \o <<"</w:p>">>

\* word/document.xml as written by Packer.toBuffer(doc); whether the root
\* element declares xmlns:m is the serializer's choice.
DocumentXml(paras, withM) ==
  <<IF withM THEN W_DOCUMENT_M ELSE W_DOCUMENT, "<w:body>">>
  \o Flatten([i \in 1..Len(paras) |-> ParagraphXml(paras[i])])
  \o <<"<w:sectPr/>", "</w:body>", "</w:document>">>

(* --------------------------- patchDocxWithMath ------------------------- *)

\* Lines 1620-1625.
W_DOCUMENT_MM == "<w:document xmlns:w=\"http://schemas.openxmlformats.org/wordprocessingml/2006/main\" xmlns:m=\"http://schemas.openxmlformats.org/officeDocument/2006/math\" xmlns:m=\"http://schemas.openxmlformats.org/officeDocument/2006/math\">"

InjectNamespaceAlways(xml) ==
  [i \in 1..Len(xml) |-> IF xml[i] = W_DOCUMENT THEN W_DOCUMENT_M
                         ELSE IF xml[i] = W_DOCUMENT_M THEN W_DOCUMENT_MM ELSE xml[i]]

InjectNamespace(xml) ==
  IF Includes(xml, {W_DOCUMENT_M}) THEN xml
  ELSE [i \in 1..Len(xml) |-> IF xml[i] = W_DOCUMENT THEN W_DOCUMENT_M ELSE xml[i]]

cleanOmml(value) == finalizeOmmlString(value)

\* xml.lastIndexOf("<w:r", ...): every chunk that starts with "<w:r".
RunOpenPrefixed == {W_R, W_RPR, W_RFONTS}

\* Lines 1648-1651.
SafeOmmlAlwaysWrap(omml, displayMode) ==
  IF displayMode THEN <<OMATHPARA>> \o cleanOmml(omml) \o <<OMATHPARA_CLOSE>>
  ELSE cleanOmml(omml)

SafeOmml(omml, displayMode) ==
  IF displayMode /\ ~IncludesMathPara(cleanOmml(omml))
  THEN <<OMATHPARA>> \o cleanOmml(omml) \o <<OMATHPARA_CLOSE>>
  ELSE cleanOmml(omml)

\* The positions the loop body computes for one replacement (0: not found).
TokenIndex(xml, rep) == IndexOf(xml, {rep.token}, 1)
RunStart(xml, rep) == LastIndexOf(xml, RunOpenPrefixed, TokenIndex(xml, rep))
RunEnd(xml, rep) == IndexOf(xml, {W_R_CLOSE}, TokenIndex(xml, rep))

Skipped(xml, rep) ==
  \/ TokenIndex(xml, rep) = 0
  \/ RunStart(xml, rep) = 0
  \/ RunEnd(xml, rep) = 0
  \/ ~Includes(SubSeq(xml, RunStart(xml, rep), RunEnd(xml, rep)), {rep.token})

\* One iteration of the loop of lines 1634-1654.
PatchOneClearOnMiss(xml, rep) ==
  IF Skipped(xml, rep) THEN <<>>
  ELSE SubSeq(xml, 1, RunStart(xml, rep) - 1) \o SafeOmml(rep.omml, rep.displayMode)
       \o SubSeq(xml, RunEnd(xml, rep) + 1, Len(xml))

PatchOne(xml, rep) ==
  IF Skipped(xml, rep) THEN xml
  ELSE SubSeq(xml, 1, RunStart(xml, rep) - 1) \o SafeOmml(rep.omml, rep.displayMode)
       \o SubSeq(xml, RunEnd(xml, rep) + 1, Len(xml))

(* ------------------------ OMML structural repair ----------------------- *)

\* The parsed fragment is a tree.  An element is [tag, val, kids]: tag is
\* the local name for an element of the math namespace (isM compares local
\* names) and the qualified name otherwise, val the m:val attribute, kids
\* the child nodes.  The text of an m:t and a text node between elements
\* ("#text") are in val, as a sequence of characters.
El(tag, kids) == [tag |-> tag, val |-> <<>>, kids |-> kids]
Pr(tag, v) == [tag |-> tag, val |-> v, kids |-> <<>>]
T(text) == [tag |-> "t", val |-> text, kids |-> <<>>]
TextNode(text) == [tag |-> "#text", val |-> text, kids |-> <<>>]

\* n.nodeType === 1
IsElement(n) == n.tag # "#text"
isM(elem, local) == elem.tag = local

\* makeRun / makeRunWithText (xml:space is not modelled)
makeRun(value) == El("r", <<T(value)>>)

\* Node.textContent
RECURSIVE textContent(_)
textContent(n) ==
  IF n.tag \in {"t", "#text"} THEN n.val
  ELSE Flatten([i \in 1..Len(n.kids) |-> textContent(n.kids[i])])

INTEGRAL == "U+222B"
SUMMATION == "U+2211"
INFINITY == "U+221E"
PARALLEL == "U+2225"
Digits == {"0", "1", "2", "3", "4", "5", "6", "7", "8", "9"}
\* /^\d+$/
IsDigits(text) == text # <<>> /\ \A i \in 1..Len(text) : text[i] \in Digits

\* The first element child with a local name, or NoNode.
NoNode == [tag |-> "(none)", val |-> <<>>, kids |-> <<>>]
FirstChild(elem, local) ==
  IF \E i \in 1..Len(elem.kids) : isM(elem.kids[i], local)
  THEN elem.kids[CHOOSE i \in 1..Len(elem.kids) :
                 isM(elem.kids[i], local) /\ \A j \in 1..(i - 1) : ~isM(elem.kids[j], local)]
  ELSE NoNode

\* traverseElements(root, fn) for an fn that rewrites the children of the
\* element it is called on: fn is applied to an element before its (new)
\* children are visited.
RECURSIVE Traverse(_, _)
Traverse(fn(_), elem) ==
  IF ~IsElement(elem) THEN elem
  ELSE LET done == fn(elem)
       IN [done EXCEPT !.kids = [i \in 1..Len(done.kids) |-> Traverse(fn, done.kids[i])]]

\* The n-ary that fixRunIntegrals builds (lines 909-932).
IntegralNary(sub, sup) ==
  El("nary",
     << El("naryPr", << Pr("chr", <<INTEGRAL>>), Pr("limLoc", <<"undOvr">>), Pr("grow", <<"1">>),
                        Pr("subHide", <<"off">>), Pr("supHide", <<"off">>) >>),
        El("sub", IF sub # <<>> THEN <<makeRun(sub)>> ELSE <<>>),
        El("sup", IF sup # <<>> THEN <<makeRun(sup)>> ELSE <<>>),
        El("e", <<>>) >>)

\* The trimmed text of the element at k, "" for anything else.
TextAt(ns, k) ==
  IF k <= Len(ns) /\ IsElement(ns[k]) THEN Trim(textContent(ns[k])) ELSE <<>>

\* An integral run never takes the run after its lower limit.
IntegralLimitsShort(ns, i) ==
  LET text == TextAt(ns, i)
      rest == IF Len(text) > 1 THEN Trim(Tail(text)) ELSE <<>>
      ownSub == IF IsDigits(rest) THEN rest ELSE <<>>
  IN IF TextAt(ns, i + 1) = <<INFINITY>> THEN [sub |-> ownSub, sup |-> <<INFINITY>>, consume |-> 2]
     ELSE IF text = <<INTEGRAL>> /\ IsDigits(TextAt(ns, i + 1))
     THEN [sub |-> TextAt(ns, i + 1), sup |-> <<>>, consume |-> 2]
     ELSE [sub |-> ownSub, sup |-> <<>>, consume |-> 1]

\* Lines 879-907: the limits of the integral run at i and the number of
\* nodes it takes with it.
IntegralLimits(ns, i) ==
  LET text == TextAt(ns, i)
      integralOnly == text = <<INTEGRAL>>
      integralWithSub == Len(text) > 1 /\ text[1] = INTEGRAL
      rest == IF integralWithSub THEN Trim(Tail(text)) ELSE <<>>
      ownSub == IF IsDigits(rest) THEN rest ELSE <<>>
      nextText == TextAt(ns, i + 1)
      next2Text == TextAt(ns, i + 2)
  IN IF nextText = <<INFINITY>> THEN [sub |-> ownSub, sup |-> <<INFINITY>>, consume |-> 2]
     ELSE IF integralOnly /\ IsDigits(nextText)
     THEN (IF next2Text = <<INFINITY>>
           THEN [sub |-> nextText, sup |-> <<INFINITY>>, consume |-> 3]
           ELSE [sub |-> nextText, sup |-> <<>>, consume |-> 2])
     ELSE [sub |-> ownSub, sup |-> <<>>, consume |-> 1]

\* text === integral || text.startsWith(integral) && text.length > 1
IsIntegralRun(n) ==
  IsElement(n) /\ isM(n, "r") /\ Trim(textContent(n)) # <<>> /\ Trim(textContent(n))[1] = INTEGRAL

\* The while loop of fixRunIntegrals over the child nodes of one element.
RECURSIVE IntegralRuns(_, _)
IntegralRuns(ns, i) ==
  IF i > Len(ns) THEN ns
  ELSE IF ~IsIntegralRun(ns[i]) THEN IntegralRuns(ns, i + 1)
  ELSE LET found == IntegralLimits(ns, i)
       IN IntegralRuns(SubSeq(ns, 1, i - 1) \o <<IntegralNary(found.sub, found.sup)>>
                       \o SubSeq(ns, i + found.consume, Len(ns)), i + 1)

fixRunIntegralsIn(elem) ==
  IF isM(elem, "nary") \/ isM(elem, "t") THEN elem ELSE [elem EXCEPT !.kids = IntegralRuns(elem.kids, 1)]

fixRunIntegrals(root) == Traverse(fixRunIntegralsIn, root)

\* The one code point of the first m:t of a run, or "" (the code's null).
runTextIfSingleChar(run) ==
  IF ~isM(run, "r") \/ FirstChild(run, "t") = NoNode THEN ""
  ELSE LET txt == Trim(textContent(FirstChild(run, "t")))
       IN IF Len(txt) = 1 THEN txt[1] ELSE ""

TallLocals ==
  {"m", "eqArr", "f", "rad", "nary", "stack", "limLow", "limUpp", "box", "bar",
   "groupChr", "sSub", "sSup", "sSubSup"}
isTall(elem) == elem.tag \in TallLocals

\* The index of the first element at or after start, or 0 (the code's -1).
nextElementIndex(ns, start) ==
  IF \E i \in start..Len(ns) : IsElement(ns[i])
  THEN CHOOSE i \in start..Len(ns) :
         IsElement(ns[i]) /\ \A j \in start..(i - 1) : ~IsElement(ns[j])
  ELSE 0

\* m:d with m:dPr (begChr, endChr, grow) and one m:e holding the content.
createDelimiterWithOptionalEnd(beg, end, inner) ==
  El("d", << El("dPr", << Pr("begChr", beg), Pr("endChr", end), Pr("grow", <<"1">>) >>),
             El("e", inner) >>)

\* The registry; its two other pairs are strings of several code points,
\* which runTextIfSingleChar never returns.
DelimiterPairs == {<<"(", ")">>, <<"[", "]">>, <<"{", "}">>, <<"|", "|">>}

Without(ns, drop) ==
  LET keep == {i \in 1..Len(ns) : i \notin drop}
  IN [n \in 1..Cardinality(keep) |->
        ns[CHOOSE i \in keep : Cardinality({j \in keep : j < i}) = n - 1]]

\* The triple (a, b, c) the for loop of promoteDelimitersInContainer finds
\* at i: a run of one character, the next element tall, the element after
\* it a run holding the matching close character.
PromotableAt(ns, i) ==
  /\ IsElement(ns[i])
  /\ runTextIfSingleChar(ns[i]) # ""
  /\ LET j == nextElementIndex(ns, i + 1)
     IN /\ j # 0
        /\ isTall(ns[j])
        /\ LET k == nextElementIndex(ns, j + 1)
           IN /\ k # 0
              /\ runTextIfSingleChar(ns[k]) # ""
              /\ <<runTextIfSingleChar(ns[i]), runTextIfSingleChar(ns[k])>> \in DelimiterPairs

\* A collapse that leaves the children as they are.
PromoteAtNothing(ns, i) == ns

PromoteAt(ns, i) ==
  LET j == nextElementIndex(ns, i + 1)
      k == nextElementIndex(ns, j + 1)
      d == createDelimiterWithOptionalEnd(<<runTextIfSingleChar(ns[i])>>,
                                          <<runTextIfSingleChar(ns[k])>>, <<ns[j]>>)
  IN SubSeq(ns, 1, i - 1) \o <<d>> \o Without(SubSeq(ns, i + 1, Len(ns)), {j - i, k - i})

FirstIndex(ns, Found(_, _)) ==
  IF \E i \in 1..Len(ns) : Found(ns, i)
  THEN CHOOSE i \in 1..Len(ns) : Found(ns, i) /\ \A j \in 1..(i - 1) : ~Found(ns, j)
  ELSE 0

\* while (changed): restart from the first child after every collapse.
RECURSIVE PromoteLoop(_)
PromoteLoop(ns) ==
  LET i == FirstIndex(ns, PromotableAt)
  IN IF i = 0 THEN ns ELSE PromoteLoop(PromoteAt(ns, i))

\* One collapse and no restart.
PromoteFirstOnly(elem) ==
  LET i == FirstIndex(elem.kids, PromotableAt)
  IN IF i = 0 THEN elem ELSE [elem EXCEPT !.kids = PromoteAt(elem.kids, i)]

promoteDelimitersInContainer(container) ==
  [container EXCEPT !.kids = PromoteLoop(container.kids)]

\* traverseElements(root, el => { if (isM(el, "t")) return; promote... })
PromoteIn(elem) == IF isM(elem, "t") THEN elem ELSE promoteDelimitersInContainer(elem)
promoteDelimiters(root) == Traverse(PromoteIn, root)

\* Any opening character before the matrix.
BraceAtAnyOpen(ns, i) ==
  /\ i < Len(ns)
  /\ IsElement(ns[i]) /\ IsElement(ns[i + 1])
  /\ runTextIfSingleChar(ns[i]) \in {"(", "[", "{"}
  /\ isM(ns[i + 1], "m")

\* wrapBraceBeforeMatrix: a "{" run with an m:m as its next child node.
BraceAt(ns, i) ==
  /\ i < Len(ns)
  /\ IsElement(ns[i]) /\ IsElement(ns[i + 1])
  /\ runTextIfSingleChar(ns[i]) = "{"
  /\ isM(ns[i + 1], "m")

\* The collapse at i: the delimiter takes the place of the run and the matrix.
BraceCollapseAt(ns, i) ==
  SubSeq(ns, 1, i - 1)
    \o <<createDelimiterWithOptionalEnd(<<"{">>, <<>>, <<ns[i + 1]>>)>>
    \o SubSeq(ns, i + 2, Len(ns))

RECURSIVE BraceLoop(_)
BraceLoop(ns) ==
  LET i == FirstIndex(ns, BraceAt)
  IN IF i = 0 THEN ns ELSE BraceLoop(BraceCollapseAt(ns, i))

wrapBraceIn(elem) ==
  IF isM(elem, "t") \/ isM(elem, "nary") THEN elem ELSE [elem EXCEPT !.kids = BraceLoop(elem.kids)]
wrapBraceBeforeMatrix(root) == Traverse(wrapBraceIn, root)

\* wrapSquareBracketsAroundTall: a "[" run, the first "]" run after it, and
\* a tall element among the elements between them.
CloseIndex(ns, i) ==
  IF \E j \in (i + 1)..Len(ns) : IsElement(ns[j]) /\ runTextIfSingleChar(ns[j]) = "]"
  THEN CHOOSE j \in (i + 1)..Len(ns) :
         /\ IsElement(ns[j]) /\ runTextIfSingleChar(ns[j]) = "]"
         /\ \A h \in (i + 1)..(j - 1) : ~(IsElement(ns[h]) /\ runTextIfSingleChar(ns[h]) = "]")
  ELSE 0

SquareAt(ns, i) ==
  /\ i < Len(ns)
  /\ IsElement(ns[i])
  /\ runTextIfSingleChar(ns[i]) = "["
  /\ CloseIndex(ns, i) # 0
  /\ \E h \in (i + 1)..(CloseIndex(ns, i) - 1) : IsElement(ns[h]) /\ isTall(ns[h])

\* The collapse at i: the delimiter takes the place of the two brackets and
\* of what is between them.
SquareCollapseAt(ns, i) ==
  LET c == CloseIndex(ns, i)
  IN SubSeq(ns, 1, i - 1)
       \o <<createDelimiterWithOptionalEnd(<<"[">>, <<"]">>, SubSeq(ns, i + 1, c - 1))>>
       \o SubSeq(ns, c + 1, Len(ns))

RECURSIVE SquareLoop(_)
SquareLoop(ns) ==
  LET i == FirstIndex(ns, SquareAt)
  IN IF i = 0 THEN ns ELSE SquareLoop(SquareCollapseAt(ns, i))

wrapSquareIn(elem) ==
  IF isM(elem, "t") \/ isM(elem, "nary") THEN elem ELSE [elem EXCEPT !.kids = SquareLoop(elem.kids)]
wrapSquareBracketsAroundTall(root) == Traverse(wrapSquareIn, root)

\* removeNonMathElements: elements of the WordprocessingML and drawing
\* prefixes go, with everything below them.
ForeignTags == {"w:rPr", "w:r"}
RECURSIVE RemoveWhere(_, _)
RemoveWhere(Gone(_), n) ==
  LET kept == SelectSeq(n.kids, LAMBDA k : ~(IsElement(k) /\ Gone(k)))
  IN [n EXCEPT !.kids = [i \in 1..Len(kept) |-> RemoveWhere(Gone, kept[i])]]

IsForeign(elem) == elem.tag \in ForeignTags
removeNonMathElements(root) == RemoveWhere(IsForeign, root)

\* removeUndefinedStyle
IsUndefinedStyle(elem) == isM(elem, "sty") /\ elem.val = <<"undefined">>
removeUndefinedStyle(root) == RemoveWhere(IsUndefinedStyle, root)

\* fixNormSupSubRuns: /(.*)∥([0-9]+)(.*)/ on the first m:t of a run.
\* The greedy prefix ends at the last bar that a digit follows.
NormAt(text) ==
  LET hits == {i \in 1..(Len(text) - 1) : text[i] = PARALLEL /\ text[i + 1] \in Digits}
  IN IF hits = {} THEN 0 ELSE CHOOSE i \in hits : \A j \in hits : j <= i

DigitsEnd(text, from) ==
  CHOOSE j \in from..Len(text) :
    /\ \A h \in from..j : text[h] \in Digits
    /\ j = Len(text) \/ text[j + 1] \notin Digits

NormNodes(run) ==
  IF ~IsElement(run) \/ ~isM(run, "r") \/ FirstChild(run, "t") = NoNode THEN <<run>>
  ELSE
    LET text == textContent(FirstChild(run, "t"))
        at == NormAt(text)
        stop == DigitsEnd(text, at + 1)
        prefix == SubSeq(text, 1, at - 1)
        digits == SubSeq(text, at + 1, stop)
        suffix == SubSeq(text, stop + 1, Len(text))
        script ==
          IF Len(digits) >= 2
          THEN El("sSubSup", << El("sSubSupPr", <<>>), El("e", <<makeRun(<<PARALLEL>>)>>),
                                El("sub", <<makeRun(<<digits[1]>>)>>),
                                El("sup", <<makeRun(Tail(digits))>>) >>)
          ELSE El("sSub", << El("sSubPr", <<>>), El("e", <<makeRun(<<PARALLEL>>)>>),
                             El("sub", <<makeRun(digits)>>) >>)
    IN IF at = 0 THEN <<run>>
       ELSE (IF prefix # <<>> THEN <<makeRun(prefix)>> ELSE <<>>) \o <<script>>
            \o (IF suffix # <<>> THEN <<makeRun(suffix)>> ELSE <<>>)

fixNormIn(elem) ==
  IF isM(elem, "t") \/ isM(elem, "nary") THEN elem
  ELSE [elem EXCEPT !.kids = Flatten([i \in 1..Len(elem.kids) |-> NormNodes(elem.kids[i])])]
fixNormSupSubRuns(root) == Traverse(fixNormIn, root)

FirstChildIndex(elem, local) ==
  IF \E i \in 1..Len(elem.kids) : isM(elem.kids[i], local)
  THEN CHOOSE i \in 1..Len(elem.kids) :
         isM(elem.kids[i], local) /\ \A j \in 1..(i - 1) : ~isM(elem.kids[j], local)
  ELSE 0

HasElementChild(elem) == \E i \in 1..Len(elem.kids) : IsElement(elem.kids[i])

\* /^d.*x/i on the text of a run with its white space removed
IsDifferential(elem) ==
  /\ isM(elem, "r")
  /\ LET t == SelectSeq(textContent(elem), LAMBDA c : c \notin WhiteSpace)
     IN /\ t # <<>>
        /\ t[1] \in {"d", "D"}
        /\ \E h \in 2..Len(t) : t[h] \in {"x", "X"}

\* fixEmptyNaryIntegrand, as it acts on the children of one parent from
\* left to right: an n-ary whose m:e has no element child takes its next
\* element sibling in.
AdoptsAt(ns, i) ==
  /\ IsElement(ns[i]) /\ isM(ns[i], "nary")
  /\ FirstChildIndex(ns[i], "e") # 0
  /\ ~HasElementChild(FirstChild(ns[i], "e"))
  /\ nextElementIndex(ns, i + 1) # 0
  /\ ~IsDifferential(ns[nextElementIndex(ns, i + 1)])

RECURSIVE AdoptRuns(_, _)
AdoptRuns(ns, i) ==
  IF i > Len(ns) THEN ns
  ELSE IF ~AdoptsAt(ns, i) THEN AdoptRuns(ns, i + 1)
  ELSE LET j == nextElementIndex(ns, i + 1)
           e == FirstChildIndex(ns[i], "e")
           nary == [ns[i] EXCEPT !.kids[e].kids = @ \o <<ns[j]>>]
       IN AdoptRuns(Without([ns EXCEPT ![i] = nary], {j}), i + 1)

fixEmptyIn(elem) == [elem EXCEPT !.kids = AdoptRuns(elem.kids, 1)]
fixEmptyNaryIntegrand(root) == Traverse(fixEmptyIn, root)

\* forceIntegralLimitsUnderOver
\* The single integral only.
IntegralCharsSingle == {INTEGRAL}
IntegralChars == {INTEGRAL, "U+222E", "U+222F", "U+2230"}
forceLimitsIn(elem) ==
  IF ~isM(elem, "nary") \/ FirstChildIndex(elem, "naryPr") = 0 THEN elem
  ELSE
    LET p == FirstChildIndex(elem, "naryPr")
        naryPr == elem.kids[p]
        chrVal == IF FirstChildIndex(naryPr, "chr") = 0 THEN <<>> ELSE FirstChild(naryPr, "chr").val
        l == FirstChildIndex(naryPr, "limLoc")
    IN IF Len(chrVal) # 1 \/ chrVal[1] \notin IntegralChars THEN elem
       ELSE IF l = 0
       THEN [elem EXCEPT !.kids[p].kids = @ \o <<Pr("limLoc", <<"undOvr">>)>>]
       ELSE [elem EXCEPT !.kids[p].kids[l].val = <<"undOvr">>]
forceIntegralLimitsUnderOver(root) == Traverse(forceLimitsIn, root)

\* wrapParensInScripts
ScriptLocals == {"sSup", "sSub", "sSubSup"}
ScriptPairs == {<<"(", ")">>, <<"{", "}">>}
wrapParensIn(elem) ==
  IF elem.tag \notin ScriptLocals \/ FirstChildIndex(elem, "e") = 0 THEN elem
  ELSE
    LET e == FirstChildIndex(elem, "e")
        ns == elem.kids[e].kids
        els == {i \in 1..Len(ns) : IsElement(ns[i])}
        first == CHOOSE i \in els : \A j \in els : i <= j
        final == CHOOSE i \in els : \A j \in els : j <= i
    IN IF Cardinality(els) < 3 THEN elem
       ELSE IF <<runTextIfSingleChar(ns[first]), runTextIfSingleChar(ns[final])>> \notin ScriptPairs
       THEN elem
       ELSE [elem EXCEPT !.kids[e].kids =
               SubSeq(ns, 1, first - 1)
               \o <<createDelimiterWithOptionalEnd(<<runTextIfSingleChar(ns[first])>>,
                                                   <<runTextIfSingleChar(ns[final])>>,
                                                   SubSeq(ns, first + 1, final - 1))>>
               \o SubSeq(ns, final + 1, Len(ns))]
wrapParensInScripts(root) == Traverse(wrapParensIn, root)

\* getRunText
getRunText(run) == IF ~isM(run, "r") THEN <<>> ELSE Trim(textContent(run))

isNaryWithChr(node, chr) ==
  /\ isM(node, "nary")
  /\ FirstChildIndex(node, "naryPr") # 0
  /\ FirstChildIndex(FirstChild(node, "naryPr"), "chr") # 0
  /\ FirstChild(FirstChild(node, "naryPr"), "chr").val = <<chr>>

\* text.includes("1+") and the index of its first occurrence
OnePlusAt(text) ==
  LET hits == {i \in 1..(Len(text) - 1) : text[i] = "1" /\ text[i + 1] = "+"}
  IN IF hits = {} THEN 0 ELSE CHOOSE i \in hits : \A j \in hits : i <= j

ElementAt(ns, i) == i <= Len(ns) /\ IsElement(ns[i])

\* What the body of the for loop of fixBracketedFraction finds at i:
\* [ok, consume, tail, head, denomRun, sum].
BracketedAt(ns, i) ==
  LET miss == [ok |-> FALSE, consume |-> 0, tail |-> <<>>, head |-> <<>>, denomRun |-> <<>>, sum |-> 0]
      run2Text == getRunText(ns[i + 2])
      at == OnePlusAt(run2Text)
      Closes(c) == ElementAt(ns, c) /\ getRunText(ns[c]) = <<"]">>
  IN IF ~(ElementAt(ns, i) /\ ElementAt(ns, i + 1) /\ ElementAt(ns, i + 2)) THEN miss
     ELSE IF getRunText(ns[i]) # <<"[">> \/ ~isNaryWithChr(ns[i + 1], INTEGRAL) \/ run2Text = <<>>
     THEN miss
     ELSE IF at # 0
     THEN (IF ElementAt(ns, i + 3) /\ isNaryWithChr(ns[i + 3], SUMMATION) /\ Closes(i + 4)
           THEN [ok |-> TRUE, consume |-> 5, tail |-> SubSeq(run2Text, 1, at - 1),
                 head |-> SubSeq(run2Text, at, Len(run2Text)), denomRun |-> <<>>, sum |-> i + 3]
           ELSE miss)
     ELSE (IF /\ ElementAt(ns, i + 3) /\ getRunText(ns[i + 3]) = <<"1", "+">>
              /\ ElementAt(ns, i + 4) /\ isNaryWithChr(ns[i + 4], SUMMATION) /\ Closes(i + 5)
           THEN [ok |-> TRUE, consume |-> 6, tail |-> run2Text, head |-> <<>>,
                 denomRun |-> <<ns[i + 3]>>, sum |-> i + 4]
           ELSE miss)

IsBracketedAt(ns, i) == BracketedAt(ns, i).ok

BracketedFraction(ns, i) ==
  LET hit == BracketedAt(ns, i)
      num == El("num", <<ns[i + 1]>> \o (IF Trim(hit.tail) # <<>> THEN <<makeRun(hit.tail)>> ELSE <<>>))
      den == El("den", (IF hit.head # <<>> THEN <<makeRun(hit.head)>> ELSE hit.denomRun)
                       \o <<ns[hit.sum]>>)
      f == El("f", << El("fPr", <<Pr("type", <<"bar">>)>>), num, den >>)
  IN createDelimiterWithOptionalEnd(<<"[">>, <<"]">>, <<f>>)

fixBracketedIn(elem) ==
  LET i == FirstIndex(elem.kids, IsBracketedAt)
  IN IF isM(elem, "t") \/ i = 0 THEN elem
     ELSE [elem EXCEPT !.kids = SubSeq(@, 1, i - 1) \o <<BracketedFraction(@, i)>>
                                \o SubSeq(@, i + BracketedAt(@, i).consume, Len(@))]
fixBracketedFraction(root) == Traverse(fixBracketedIn, root)

\* repairInvalidScripts.  toCheck is in document order, so a construct is
\* judged before anything below it is unwrapped into it.
HasSlot(elem, local) == FirstChildIndex(elem, local) # 0
LacksRequiredSlot(elem) ==
  \/ elem.tag = "sSub" /\ ~HasSlot(elem, "sub")
  \/ elem.tag = "sSup" /\ ~HasSlot(elem, "sup")
  \/ elem.tag = "sSubSup" /\ (~HasSlot(elem, "sub") \/ ~HasSlot(elem, "sup"))
IsInvalidScript(elem) ==
  elem.tag \in ScriptLocals /\ (~HasSlot(elem, "e") \/ LacksRequiredSlot(elem))

RECURSIVE unwrapToBase(_)
unwrapToBase(ns) ==
  Flatten([i \in 1..Len(ns) |->
    IF ~IsElement(ns[i]) THEN <<ns[i]>>
    ELSE IF ns[i].tag \in ScriptLocals /\ ~HasSlot(ns[i], "e") THEN <<>>
    ELSE IF IsInvalidScript(ns[i]) THEN unwrapToBase(FirstChild(ns[i], "e").kids)
    ELSE <<[ns[i] EXCEPT !.kids = unwrapToBase(@)]>>])

\* Unwraps to the base even when there is none to drop the construct for.
RECURSIVE unwrapKeeping(_)
unwrapKeeping(ns) ==
  Flatten([i \in 1..Len(ns) |->
    IF ~IsElement(ns[i]) THEN <<ns[i]>>
    ELSE IF ns[i].tag \in ScriptLocals /\ ~HasSlot(ns[i], "e") THEN <<ns[i]>>
    ELSE IF IsInvalidScript(ns[i]) THEN unwrapKeeping(FirstChild(ns[i], "e").kids)
    ELSE <<[ns[i] EXCEPT !.kids = unwrapKeeping(@)]>>])
repairKeepingBaseless(root) == [root EXCEPT !.kids = unwrapKeeping(unwrapKeeping(@))]

\* for (let pass = 0; pass < 2; pass += 1)
repairInvalidScripts(root) == [root EXCEPT !.kids = unwrapToBase(unwrapToBase(@))]

\* normalizeOmmlTextNodesDom on the text of one m:t
RECURSIVE normalizeOmmlTextNodesDom(_)
normalizeOmmlTextNodesDom(n) ==
  IF isM(n, "t")
  THEN [n EXCEPT !.val = SelectSeq([i \in 1..Len(@) |-> IF @[i] = "U+00A0" THEN " " ELSE @[i]],
                                   LAMBDA c : c \notin ZeroWidthChars \cup ControlChars)]
  ELSE [n EXCEPT !.kids = [i \in 1..Len(@) |-> normalizeOmmlTextNodesDom(@[i])]]

\* omml.includes("<m:f"): the serialization has an element of the math
\* namespace whose local name begins with f.
FractionMarkerLocals == {"f", "fPr", "func", "funcPr", "fName"}
RECURSIVE HasFractionMarker(_)
HasFractionMarker(n) ==
  \/ n.tag \in FractionMarkerLocals
  \/ \E i \in 1..Len(n.kids) : HasFractionMarker(n.kids[i])

(* ------------------------------- inputs -------------------------------- *)

\* Raw text of the text nodes of the HTML.
RawTexts ==
  { <<"a", "U+00A0", " ">>,
    <<"U+200B">>,
    <<Token(1)>>,
    <<"see", "U+200B", Token(2)>> }

\* MathML strings: embedded in an element, or regenerated by KaTeX.
MathMLs ==
  { <<MI>>,
    <<SEMANTICS_OPEN, MFRAC, ANNOTATION, SEMANTICS_CLOSE>>,
    <<MO_FENCE, MFRAC>>,
    <<MO_DATAFENCE, MFRAC>>,
    <<MO_DATAFENCE, MO_INVISIBLE, MI>>,
    <<MTEXT_MFRAC>> }

\* MathML strings that KaTeX returns for the LaTeX of an element.
RegeneratedMathMLs ==
  { <<MI>>,
    <<MO_FENCE, MFRAC>>,
    <<MO_DATAFENCE, MFRAC>> }

\* LaTeX strings of the annotations.
Texs ==
  { <<"x">>,
    <<TEX_FRAC, "x", "}">>,
    <<TEX_DISPLAYSTYLE, TEX_BIGL, "(", TEX_FRAC, "x", "}", TEX_BIGR, ")">>,
    <<TEX_BEGIN_PMATRIX, "x", TEX_END_PMATRIX>>,
    <<TEX_BEGIN_PMATRIX, TEX_FRAC, "x", "}", TEX_END_PMATRIX>>,
    <<TEX_BEGIN_MATRIX, "x", TEX_END_MATRIX>> }

Element(display, mathml, annotation, title, text) ==
  [display |-> display, mathml |-> mathml, annotation |-> annotation,
   title |-> title, text |-> text]

NoElement == Element(FALSE, NULL, NULL, NULL, <<>>)

\* The elements of the element-level specification.
Elements ==
  { Element(FALSE, m, a, NULL, <<"x">>) : m \in MathMLs \cup {NULL}, a \in Texs \cup {NULL} }
  \cup
  { Element(TRUE, <<MI>>, <<"x">>, NULL, <<"x">>) }
  \cup
  { Element(FALSE, <<MI>>, NULL, t, x) :
      t \in { <<TEX_FRAC, "x", "}">>, <<PARSE_ERROR, TEX_FRAC>>, <<TEX_FRAC, LONG_TEXT>>, <<"x">> },
      x \in { <<" ">>, <<TEX_FRAC, "x", "}">> } }

\* The elements of the document-level specification.
DocElements ==
  { Element(TRUE, <<MO_DATAFENCE, MFRAC>>, <<TEX_FRAC, "x", "}">>, NULL, <<"x">>),
    Element(FALSE, <<MI>>, NULL, NULL, <<"x">>),
    Element(FALSE, <<MI>>, NULL, NULL, <<" ">>),
    Element(FALSE, NULL, <<"U+200B">>, NULL, <<"U+200B">>),
    Element(TRUE, NULL, <<TEX_FRAC, Token(1), "}">>, NULL, <<Token(1)>>) }

(* ----------------------------- the handler ----------------------------- *)

VARIABLES
  pc,        \* "walk", "build", "patch", "splice", "done": where POST stands
  nodes,     \* number of nodes of the HTML walked so far
  math,      \* the MathContext: [nextId, replacements]
  children,  \* the paragraphs of the section, each a sequence of TextRuns
  el,        \* the math element being converted, or converted last
  where,     \* [w, bold]: where that element stands in the document
  pend,      \* the external call its conversion waits for
  calls,     \* the external calls made for it, in order
  last,      \* what the last node walked gave: the result of the conversion,
             \* the runs made, nextId and the number of paragraphs before it
  xml,       \* word/document.xml, << >> before the document is packed
  idx,       \* index of the next replacement of the splice loop
  status,    \* HTTP status of the response, 0 before
  reqs,      \* two requests in flight in one process, each with the locals
             \* of its POST: [pc, math, children, xml, status]
  post       \* one call of postProcessOmml: [pc, raw, tree, log, bracketed,
             \* result], log the passes run so far in order

handlerVars == <<pc, nodes, math, children, el, where, pend, calls, last, xml, idx, status, reqs>>
vars == <<pc, nodes, math, children, el, where, pend, calls, last, xml, idx, status, reqs, post>>

\* The requests of the two-request specification, and a request not yet
\* received.
Requests == {1, 2}
NoRequest ==
  [pc |-> "idle", math |-> [nextId |-> 0, replacements |-> <<>>], children |-> <<>>,
   xml |-> <<>>, status |-> 0]

\* No call of postProcessOmml.
NoPost ==
  [pc |-> "idle", raw |-> <<>>, tree |-> NoNode, log |-> <<>>, bracketed |-> FALSE,
   result |-> <<>>]

NoLast == [kind |-> "none", omml |-> NULL, runs |-> <<>>, id |-> 0, paras |-> 0]

InitHandler ==
  /\ pc = "walk"
  /\ nodes = 0
  /\ math = [nextId |-> 1, replacements |-> <<>>]
  /\ children = <<>>
  /\ el = NoElement
  /\ where = [w |-> "block", bold |-> FALSE]
  /\ pend = Idle
  /\ calls = <<>>
  /\ last = NoLast
  /\ xml = <<>>
  /\ idx = 0
  /\ status = 0
  /\ reqs = [r \in Requests |-> NoRequest]

Init == InitHandler /\ post = NoPost

\* The rest of the katex branch once buildOmmlFromElement has returned or
\* thrown; an exception ends POST in its catch (lines 1709-1713).
FinishMath(e, wh, cont) ==
  IF cont.thrown
  THEN /\ pc' = "done"
       /\ status' = 500
       /\ last' = [kind |-> "thrown", omml |-> NULL, runs |-> <<>>, id |-> math.nextId,
                  paras |-> Len(children)]
       /\ UNCHANGED <<math, children>>
  ELSE LET made == KatexBranch(math, e, wh.bold, cont.ret)
       IN /\ pc' = "walk"
          /\ math' = made.ctx
          /\ children' = AddParagraph(children, wh.w, made.runs)
          /\ last' = [kind |-> "math", omml |-> cont.ret, runs |-> made.runs,
                      id |-> math.nextId, paras |-> Len(children)]
          /\ UNCHANGED status

\* The conversion goes on to its next external call, or ends.
Advance(e, wh, cont) ==
  /\ pend' = cont.pend
  /\ IF cont.pend.k # "none"
     THEN /\ pc' = "build"
          /\ UNCHANGED <<math, children, last, status>>
     ELSE FinishMath(e, wh, cont)

\* A text node: directly in a block, or in a paragraph (bold in <strong>).
WalkTextOf(limit) ==
  /\ pc = "walk" /\ nodes < limit
  /\ \E raw \in RawTexts, w \in {"block", "inline"}, bold \in BOOLEAN :
       /\ w = "block" => ~bold
       /\ children' = AddParagraph(children, w, TextBranch(raw, bold))
       /\ last' = [kind |-> "text", omml |-> NULL, runs |-> TextBranch(raw, bold),
                   id |-> math.nextId, paras |-> Len(children)]
  /\ nodes' = nodes + 1
  /\ el' = NoElement /\ calls' = <<>> /\ where' = [w |-> "block", bold |-> FALSE]
  /\ UNCHANGED <<pc, math, pend, xml, idx, status, reqs, post>>

\* A KaTeX element: createMathPlaceholder up to the first external call.
WalkMathOf(limit, elements, places) ==
  /\ pc = "walk" /\ nodes < limit
  /\ \E e \in elements, w \in places :
       /\ el' = e
       /\ where' = [w |-> w, bold |-> FALSE]
       /\ Advance(e, where', buildOmmlFromElement(e))
  /\ nodes' = nodes + 1
  /\ calls' = <<>>
  /\ UNCHANGED <<xml, idx, reqs, post>>

\* mml2omml returns (or throws) inside tryMathMlToOmml.
Mml2OmmlOf(outcomes, posts) ==
  /\ pc = "build" /\ pend.k = "conv"
  /\ \E c \in outcomes, po \in posts :
       /\ calls' = Append(calls,
            [k |-> "conv", stage |-> pend.stage, attempt |-> pend.attempt,
             src |-> pend.src, ml |-> pend.ml, out |-> RunConverter(c, po),
             ret |-> IF tryMathMlToOmml(pend, c, po).kind = "return"
                     THEN tryMathMlToOmml(pend, c, po).v ELSE PENDING])
       /\ Advance(el, where, AfterConverter(el, pend, c, po))
  /\ UNCHANGED <<nodes, el, where, xml, idx, reqs, post>>

\* katex.renderToString returns (or throws) inside texToMathMl.
KatexRenderOf(mls) ==
  /\ pc = "build" /\ pend.k = "katex"
  /\ \E k \in KatexOutcomes(mls) :
       /\ calls' = Append(calls,
            [k |-> "katex", stage |-> pend.stage, attempt |-> 0, src |-> NULL,
             ml |-> pend.ml, out |-> k, ret |-> texToMathMl(k)])
       /\ Advance(el, where, AfterKatex(el, pend.stage, texToMathMl(k)))
  /\ UNCHANGED <<nodes, el, where, xml, idx, reqs, post>>

\* Packer.toBuffer(doc): the walk is over, the document is serialized.
Pack ==
  /\ pc = "walk"
  /\ \E withM \in BOOLEAN : xml' = DocumentXml(children, withM)
  /\ pc' = "patch"
  /\ el' = NoElement /\ calls' = <<>> /\ last' = NoLast
  /\ where' = [w |-> "block", bold |-> FALSE]
  /\ UNCHANGED <<nodes, math, children, pend, idx, status, reqs, post>>

\* patchDocxWithMath up to its loop (lines 1611-1625).
PatchBegin ==
  /\ pc = "patch"
  /\ IF math.replacements = <<>>
     THEN pc' = "done" /\ status' = 200 /\ UNCHANGED <<xml, idx>>
     ELSE pc' = "splice" /\ xml' = InjectNamespace(xml) /\ idx' = 1 /\ UNCHANGED status
  /\ UNCHANGED <<nodes, math, children, el, where, pend, calls, last, reqs, post>>

\* One iteration of the loop over the replacements.
PatchStep ==
  /\ pc = "splice" /\ idx <= Len(math.replacements)
  /\ xml' = PatchOne(xml, math.replacements[idx])
  /\ idx' = idx + 1
  /\ UNCHANGED <<pc, nodes, math, children, el, where, pend, calls, last, status, reqs, post>>

\* The loop is over: the patched document is the response.
Respond ==
  /\ pc = "splice" /\ idx > Len(math.replacements)
  /\ pc' = "done" /\ status' = 200
  /\ UNCHANGED <<nodes, math, children, el, where, pend, calls, last, xml, idx, reqs, post>>

\* The export of a document.  The converter's outputs are those that differ
\* for the document: nothing, a fragment, a fragment in a math paragraph.
DocConverterOutcomes ==
  { THROWN, <<>>,
    <<XML_DECL, OMATH_NS, M_RUN, OMATH_CLOSE>>,
    <<OMATHPARA, OMATH_NS, M_RUN, OMATH_CLOSE, OMATHPARA_CLOSE>> }
DocPostOutcomes == {"ok", "null", "throw"}

WalkText == WalkTextOf(MaxNodes)
WalkMath == WalkMathOf(MaxNodes, DocElements, {"block", "inline", "nested"})
Mml2OmmlDoc == Mml2OmmlOf(DocConverterOutcomes, DocPostOutcomes)
KatexRenderDoc == KatexRenderOf({<<MI>>})

Next ==
  \/ WalkText
  \/ WalkMath
  \/ Mml2OmmlDoc
  \/ KatexRenderDoc
  \/ Pack
  \/ PatchBegin
  \/ PatchStep
  \/ Respond

Spec == Init /\ [][Next]_vars

\* The conversion of one element, over all the elements.
WalkElement == WalkMathOf(1, Elements, {"block"})

Mml2Omml == Mml2OmmlOf(ConverterOutcomes, PostOutcomes)
KatexRender == KatexRenderOf(RegeneratedMathMLs)

NextMath ==
  \/ WalkElement
  \/ Mml2Omml
  \/ KatexRender

SpecMath == Init /\ [][NextMath]_vars

(* ------------------------- two requests in flight ---------------------- *)

\* POST is an async function: between two awaits its code runs without any
\* other handler running.  The awaits are request.json() (1662),
\* Packer.toBuffer (1696) and, in patchDocxWithMath, JSZip.loadAsync (1614),
\* documentXml.async (1618) and zip.generateAsync (1657).

\* What request r holds, so that the origin of a run or of a fragment can be
\* read off the documents: its text, its formulas, their OMML.
RequestText(r) == <<"request", ToString(r)>>
RequestMathML(r) == <<"<mn>" \o ToString(r) \o "</mn>">>
RequestElement(r) == Element(FALSE, RequestMathML(r), NULL, NULL, <<ToString(r)>>)
RequestRun(r) == "<m:r><m:t>" \o ToString(r) \o "</m:t></m:r>"
RequestOmml(r) == <<OMATH, RequestRun(r), OMATH_CLOSE>>

\* The top-level nodes of a request: a text node, a formula that converts,
\* a formula that does not.
NodeKinds == {"text", "math", "nomath"}
RECURSIVE NodeLists(_)
NodeLists(n) ==
  IF n = 0 THEN {<<>>}
  ELSE NodeLists(n - 1) \cup {Append(ns, k) : ns \in NodeLists(n - 1), k \in NodeKinds}

\* Line 1673: the context of a request is a new object, whatever contexts
\* exist in the process.
NewContextShared(existing) == IF existing.nextId = 0 THEN [nextId |-> 1, replacements |-> <<>>] ELSE existing

NewContext(existing) == [nextId |-> 1, replacements |-> <<>>]

\* Lines 1676-1678: the loop over root.childNodes, which has no await.
RECURSIVE WalkNodes(_, _, _, _)
WalkNodes(r, ns, ctx, paras) ==
  IF ns = <<>> THEN [math |-> ctx, children |-> paras]
  ELSE LET made == IF Head(ns) = "text"
                   THEN [ctx |-> ctx, runs |-> TextBranch(RequestText(r), FALSE)]
                   ELSE KatexBranch(ctx, RequestElement(r), FALSE,
                                    IF Head(ns) = "math" THEN RequestOmml(r) ELSE NULL)
       IN WalkNodes(r, Tail(ns), made.ctx, AddParagraph(paras, "block", made.runs))

\* The loop of patchDocxWithMath over the replacements, which has no await.
RECURSIVE PatchAll(_, _)
PatchAll(x, reps) == IF reps = <<>> THEN x ELSE PatchAll(PatchOne(x, Head(reps)), Tail(reps))

Others(r) == Requests \ {r}
Other(r) == CHOOSE o \in Requests : o # r

\* Request r arrives: POST runs up to await request.json().
Receive(r) ==
  /\ reqs[r].pc = "idle"
  /\ reqs' = [reqs EXCEPT ![r].pc = "json"]
  /\ UNCHANGED <<pc, nodes, math, children, el, where, pend, calls, last, xml, idx, status, post>>

\* From the body to await Packer.toBuffer(doc): context, walk, Document.
Convert(r) ==
  /\ reqs[r].pc = "json"
  /\ \E ns \in NodeLists(MaxNodes) :
       LET walked == WalkNodes(r, ns, NewContext(reqs[Other(r)].math), <<>>)
       IN reqs' = [reqs EXCEPT ![r].pc = "packing", ![r].math = walked.math,
                               ![r].children = walked.children]
  /\ UNCHANGED <<pc, nodes, math, children, el, where, pend, calls, last, xml, idx, status, post>>

\* Packer.toBuffer resolves; patchDocxWithMath returns the buffer for an
\* empty list (1612), otherwise runs up to await JSZip.loadAsync.
Packed(r) ==
  /\ reqs[r].pc = "packing"
  /\ \E withM \in BOOLEAN :
       reqs' = [reqs EXCEPT ![r].xml = DocumentXml(reqs[r].children, withM),
                            ![r].pc = IF reqs[r].math.replacements = <<>>
                                      THEN "responding" ELSE "loading"]
  /\ UNCHANGED <<pc, nodes, math, children, el, where, pend, calls, last, xml, idx, status, post>>

\* JSZip.loadAsync resolves; up to await documentXml.async("string").
Loaded(r) ==
  /\ reqs[r].pc = "loading"
  /\ reqs' = [reqs EXCEPT ![r].pc = "reading"]
  /\ UNCHANGED <<pc, nodes, math, children, el, where, pend, calls, last, xml, idx, status, post>>

\* The markup is read: injection, splice loop, up to zip.generateAsync.
Spliced(r) ==
  /\ reqs[r].pc = "reading"
  /\ reqs' = [reqs EXCEPT ![r].xml = PatchAll(InjectNamespace(reqs[r].xml),
                                               reqs[r].math.replacements),
                          ![r].pc = "responding"]
  /\ UNCHANGED <<pc, nodes, math, children, el, where, pend, calls, last, xml, idx, status, post>>

\* The patched buffer is there: the response (1702-1708).
Answered(r) ==
  /\ reqs[r].pc = "responding"
  /\ reqs' = [reqs EXCEPT ![r].pc = "done", ![r].status = 200]
  /\ UNCHANGED <<pc, nodes, math, children, el, where, pend, calls, last, xml, idx, status, post>>

NextTwo ==
  \E r \in Requests :
    \/ Receive(r)
    \/ Convert(r)
    \/ Packed(r)
    \/ Loaded(r)
    \/ Spliced(r)
    \/ Answered(r)

SpecTwo == Init /\ [][NextTwo]_vars

(* ----------------------------- postProcessOmml ------------------------- *)

\* Converter output is a fragment: the sequence of its top-level nodes.
\* These are the constructs the fragments are made of.
MaxSiblings == 3

Matrix == El("m", <<El("mr", <<El("e", <<makeRun(<<"a">>)>>), El("e", <<makeRun(<<"b">>)>>)>>)>>)
Fraction == El("f", <<El("num", <<makeRun(<<"1">>)>>), El("den", <<makeRun(<<"2">>)>>)>>)
Nary(chr, inner) ==
  El("nary", << El("naryPr", <<Pr("chr", <<chr>>)>>), El("sub", <<>>), El("sup", <<>>),
                El("e", inner) >>)

\* Runs and tall constructs around delimiters.
DelimiterAtoms ==
  {makeRun(<<"(">>), makeRun(<<")">>), makeRun(<<"{">>), makeRun(<<"}">>),
   makeRun(<<"[">>), makeRun(<<"]">>), Matrix}
\* Integral glyphs with their limits as plain runs.
IntegralAtoms == {makeRun(<<INTEGRAL>>), makeRun(<<"0">>), makeRun(<<INFINITY>>), makeRun(<<"x">>)}
\* Script constructs: without a base, without a required slot, complete,
\* and one inside the other.
ScriptAtoms ==
  {El("sSub", <<El("sub", <<makeRun(<<"i">>)>>)>>),
   El("sSup", <<El("e", <<makeRun(<<"x">>), makeRun(<<"y">>)>>)>>),
   El("sSubSup", <<El("e", <<makeRun(<<"x">>)>>), El("sub", <<makeRun(<<"i">>)>>),
                   El("sup", <<makeRun(<<"2">>)>>)>>),
   El("sSup", <<El("e", <<El("sSub", <<El("e", <<makeRun(<<"z">>)>>)>>)>>),
                El("sup", <<El("sSub", <<El("sub", <<Fraction>>)>>)>>)>>),
   makeRun(<<"x">>)}

RECURSIVE SiblingLists(_, _)
SiblingLists(atoms, n) ==
  IF n = 0 THEN {<<>>}
  ELSE LET shorter == SiblingLists(atoms, n - 1)
       IN shorter \cup {Append(s, a) : s \in {t \in shorter : Len(t) = n - 1}, a \in atoms}

OMath(inner) == <<El("oMath", inner)>>

\* Longer fragments: two groups to promote in one container, an integral
\* among other siblings, the bracketed fraction in its two forms, the same
\* with an opening run of two m:t, white space between the elements,
\* WordprocessingML properties, an undefined style, a norm with its index
\* in one run, a delimited group in the base of a script.
TwoTexts(first, second) == El("r", <<T(first), T(second)>>)
\* An n-ary construct with a limit placement, and a script over a base.
NaryAt(chr, loc, inner) ==
  El("nary", << El("naryPr", <<Pr("chr", <<chr>>), Pr("limLoc", <<loc>>)>>), El("sub", <<>>),
                El("sup", <<>>), El("e", inner) >>)
SupOver(base) == El("sSup", <<El("e", base), El("sup", <<makeRun(<<"2">>)>>)>>)
BracketedSum ==
  <<makeRun(<<"[">>), Nary(INTEGRAL, <<makeRun(<<"f">>)>>), makeRun(<<"d", "t">>),
    makeRun(<<"1", "+">>), Nary(SUMMATION, <<makeRun(<<"a">>)>>), makeRun(<<"]">>)>>
\* Two norms in one run, nested square brackets, the bases of scripts in
\* square brackets, bars and angle brackets, n-ary constructs with a limit
\* placement or without properties, an integral glyph with a letter in its
\* run or before a script of digits, empty integrands before a matrix, a differential, a run after white
\* space and a text node, a brace before a matrix among other runs, two
\* bracketed sums in one container.
MoreFragments ==
  {OMath(<<makeRun(<<PARALLEL, "1", PARALLEL, "2">>)>>),
   OMath(<<makeRun(<<"[">>), makeRun(<<"[">>), Matrix, makeRun(<<"]">>), makeRun(<<"]">>)>>),
   OMath(<<makeRun(<<"[">>), makeRun(<<"x">>), Matrix, makeRun(<<"y">>), makeRun(<<"]">>)>>),
   OMath(<<SupOver(<<makeRun(<<"[">>), makeRun(<<"x">>), makeRun(<<"]">>)>>)>>),
   OMath(<<SupOver(<<makeRun(<<"|">>), makeRun(<<"x">>), makeRun(<<"|">>)>>)>>),
   OMath(<<SupOver(<<makeRun(<<"U+27E8">>), makeRun(<<"x">>), makeRun(<<"U+27E9">>)>>)>>),
   OMath(<<SupOver(<<makeRun(<<"{">>), makeRun(<<"x">>), makeRun(<<"y">>), makeRun(<<"}">>)>>)>>),
   OMath(<<SupOver(<<makeRun(<<"(">>), makeRun(<<")">>)>>)>>),
   OMath(<<NaryAt("U+222E", "subSup", <<makeRun(<<"f">>)>>),
           NaryAt(SUMMATION, "subSup", <<makeRun(<<"a">>)>>)>>),
   OMath(<<NaryAt("U+222F", "undOvr", <<makeRun(<<"f">>)>>), Nary("U+2230", <<makeRun(<<"f">>)>>),
           Nary(SUMMATION, <<makeRun(<<"a">>)>>)>>),
   OMath(<<El("nary", <<El("sub", <<>>), El("sup", <<>>), El("e", <<makeRun(<<"f">>)>>)>>),
           El("nary", <<El("naryPr", <<Pr("limLoc", <<"subSup">>)>>), El("e", <<makeRun(<<"f">>)>>)>>)>>),
   OMath(<<makeRun(<<INTEGRAL, "f">>), makeRun(<<"d", "x">>)>>),
   OMath(<<makeRun(<<INTEGRAL, "0">>), Matrix, makeRun(<<"x">>)>>),
   OMath(<<makeRun(<<INTEGRAL>>), SupOver(<<makeRun(<<"1">>)>>), makeRun(<<"x">>)>>),
   OMath(<<Nary(INTEGRAL, <<>>), Matrix>>),
   OMath(<<Nary(INTEGRAL, <<>>), makeRun(<<"d", "x">>), makeRun(<<"y">>)>>),
   OMath(<<Nary(SUMMATION, <<>>), TextNode(<<" ">>), makeRun(<<"x">>), makeRun(<<"y">>)>>),
   OMath(<<Nary(INTEGRAL, <<TextNode(<<"f">>)>>), SupOver(<<makeRun(<<"x">>)>>)>>),
   OMath(<<Nary(INTEGRAL, <<makeRun(<<"f">>)>>), makeRun(<<"x">>)>>),
   OMath(<<makeRun(<<"x">>), makeRun(<<"{">>), Matrix, makeRun(<<"y">>)>>),
   OMath(<<makeRun(<<"{">>), makeRun(<<"x">>), Matrix, makeRun(<<"{">>), TextNode(<<" ">>), Matrix>>),
   OMath(BracketedSum \o BracketedSum)}
LongFragments ==
  {OMath(<<makeRun(<<"(">>), Matrix, makeRun(<<")">>), makeRun(<<"(">>), Matrix, makeRun(<<")">>)>>),
   OMath(<<makeRun(<<"|">>), TextNode(<<" ">>), Matrix, TextNode(<<" ">>), makeRun(<<"|">>)>>),
   OMath(<<makeRun(<<"x">>), makeRun(<<INTEGRAL>>), makeRun(<<"1", "0">>), makeRun(<<INFINITY>>),
           makeRun(<<"y">>)>>),
   OMath(<<makeRun(<<"(">>), Nary(INTEGRAL, <<>>), makeRun(<<")">>)>>),
   OMath(<<makeRun(<<"(">>), Nary(INTEGRAL, <<makeRun(<<"x">>)>>), makeRun(<<")">>)>>),
   OMath(<<makeRun(<<"[">>), Nary(INTEGRAL, <<makeRun(<<"f">>)>>), makeRun(<<"d", "t">>),
           makeRun(<<"1", "+">>), Nary(SUMMATION, <<makeRun(<<"a">>)>>), makeRun(<<"]">>)>>),
   OMath(<<makeRun(<<"[">>), Nary(INTEGRAL, <<makeRun(<<"f">>)>>), makeRun(<<"d", "t", "1", "+">>),
           Nary(SUMMATION, <<makeRun(<<"a">>)>>), makeRun(<<"]">>)>>),
   OMath(<<TwoTexts(<<" ">>, <<"[">>), Nary(INTEGRAL, <<makeRun(<<"f">>)>>), makeRun(<<"d", "t">>),
           makeRun(<<"1", "+">>), Nary(SUMMATION, <<makeRun(<<"a">>)>>), TwoTexts(<<" ">>, <<"]">>),
           makeRun(<<"(">>), Matrix, makeRun(<<")">>)>>),
   OMath(<<El("r", <<El("w:rPr", <<>>), T(<<"x", "U+00A0">>)>>), El("w:r", <<Fraction>>)>>),
   OMath(<<El("r", <<El("rPr", <<Pr("sty", <<"undefined">>)>>), T(<<"x">>)>>)>>),
   OMath(<<makeRun(<<"x", PARALLEL, "2", "2", "y">>), makeRun(<<PARALLEL, "1">>)>>),
   OMath(<<El("sSup", <<El("e", <<makeRun(<<"(">>), makeRun(<<"x">>), makeRun(<<")">>)>>),
                        El("sup", <<makeRun(<<"2">>)>>)>>)>>),
   OMath(<<makeRun(<<"(">>), Fraction, makeRun(<<")">>)>>),
   OMath(<<El("func", <<El("fName", <<makeRun(<<"sin">>)>>), El("e", <<makeRun(<<"x">>)>>)>>),
           makeRun(<<"(">>), Matrix, makeRun(<<")">>)>>)}
  \cup MoreFragments

Fragments ==
  LongFragments
  \cup {OMath(s) : s \in SiblingLists(DelimiterAtoms, MaxSiblings) \ {<<>>}}
  \cup {OMath(s) : s \in SiblingLists(IntegralAtoms, MaxSiblings) \ {<<>>}}
  \cup {OMath(s) : s \in SiblingLists(ScriptAtoms, MaxSiblings) \ {<<>>}}

\* A string that is not well-formed XML: parseOmmlFragment returns null.
Malformed == <<[tag |-> "parsererror", val |-> <<>>, kids |-> <<>>]>>

\* omml.includes("<m:f") on a fragment
IncludesFractionMarker(fragment) ==
  \E i \in 1..Len(fragment) : HasFractionMarker(fragment[i])

\* The passes in the order of postProcessOmml, and the pass after each.
Passes ==
  <<"removeNonMathElements", "fixRunIntegrals", "fixNormSupSubRuns", "fixEmptyNaryIntegrand",
    "forceIntegralLimitsUnderOver", "wrapParensInScripts", "wrapSquareBracketsAroundTall",
    "wrapBraceBeforeMatrix", "fixBracketedFraction", "promoteDelimiters", "repairInvalidScripts",
    "removeUndefinedStyle", "normalizeOmmlTextNodesDom">>
After(pass) ==
  LET i == CHOOSE k \in 1..Len(Passes) : Passes[k] = pass
  IN IF i = Len(Passes) THEN "return" ELSE Passes[i + 1]

\* postProcessOmmlWithoutDelimiters on a fragment that parses
postProcessOmmlWithoutDelimiters(fragment) ==
  normalizeOmmlTextNodesDom(removeUndefinedStyle(repairInvalidScripts(
    fixBracketedFraction(wrapBraceBeforeMatrix(wrapSquareBracketsAroundTall(
      wrapParensInScripts(forceIntegralLimitsUnderOver(fixEmptyNaryIntegrand(
        fixNormSupSubRuns(fixRunIntegrals(removeNonMathElements(
          El("root", fragment))))))))))))).kids

\* The passes postProcessOmmlWithoutDelimiters runs
PassesWithoutDelimiters == SelectSeq(Passes, LAMBDA p : p # "promoteDelimiters")

\* Never runs the passes a second time.
FractionLostNever(fragment, full) == FALSE

\* omml.includes("<m:f") && !full.includes("<m:f")
FractionLost(fragment, full) == IncludesFractionMarker(fragment) /\ ~IncludesFractionMarker(full)

\* The promotion whatever the fragment holds.
MayPromoteAlways(fragment) == TRUE

\* if (!hasFraction) before the promotion
MayPromote(fragment) == ~IncludesFractionMarker(fragment)

\* The state at the call: postProcessOmml(omml)
InitOmml ==
  /\ InitHandler
  /\ \E fragment \in Fragments \cup {Malformed} :
       post = [NoPost EXCEPT !.pc = "parse", !.raw = fragment]

\* parseOmmlFragment, and the return of null when it fails
Parse ==
  /\ post.pc = "parse"
  /\ post' = IF post.raw = Malformed
             THEN [post EXCEPT !.pc = "done", !.result = NULL]
             ELSE [post EXCEPT !.pc = Passes[1], !.tree = El("root", post.raw)]
  /\ UNCHANGED handlerVars

RunPass(pass, out) ==
  /\ post.pc = pass
  /\ post' = [post EXCEPT !.pc = After(pass), !.tree = out, !.log = Append(@, pass)]
  /\ UNCHANGED handlerVars

RemoveNonMathElements == RunPass("removeNonMathElements", removeNonMathElements(post.tree))
FixRunIntegrals == RunPass("fixRunIntegrals", fixRunIntegrals(post.tree))
FixNormSupSubRuns == RunPass("fixNormSupSubRuns", fixNormSupSubRuns(post.tree))
FixEmptyNaryIntegrand == RunPass("fixEmptyNaryIntegrand", fixEmptyNaryIntegrand(post.tree))
ForceIntegralLimitsUnderOver ==
  RunPass("forceIntegralLimitsUnderOver", forceIntegralLimitsUnderOver(post.tree))
WrapParensInScripts == RunPass("wrapParensInScripts", wrapParensInScripts(post.tree))
WrapSquareBracketsAroundTall ==
  RunPass("wrapSquareBracketsAroundTall", wrapSquareBracketsAroundTall(post.tree))
WrapBraceBeforeMatrix == RunPass("wrapBraceBeforeMatrix", wrapBraceBeforeMatrix(post.tree))

\* fixBracketedFraction; bracketed records that it rebuilt something.
FixBracketedFraction ==
  /\ post.pc = "fixBracketedFraction"
  /\ post' = [post EXCEPT !.pc = After("fixBracketedFraction"),
                          !.tree = fixBracketedFraction(@),
                          !.log = Append(@, "fixBracketedFraction"),
                          !.bracketed = fixBracketedFraction(post.tree) # post.tree]
  /\ UNCHANGED handlerVars

\* Lines 1240-1246: the promotion, or nothing when the output of the
\* converter has the marker.
PromoteDelimiters ==
  /\ post.pc = "promoteDelimiters"
  /\ post' = IF MayPromote(post.raw)
             THEN [post EXCEPT !.pc = After("promoteDelimiters"),
                               !.tree = promoteDelimiters(@),
                               !.log = Append(@, "promoteDelimiters")]
             ELSE [post EXCEPT !.pc = After("promoteDelimiters")]
  /\ UNCHANGED handlerVars

RepairInvalidScripts == RunPass("repairInvalidScripts", repairInvalidScripts(post.tree))
RemoveUndefinedStyle == RunPass("removeUndefinedStyle", removeUndefinedStyle(post.tree))
NormalizeOmmlTextNodesDom ==
  RunPass("normalizeOmmlTextNodesDom", normalizeOmmlTextNodesDom(post.tree))

\* Lines 1252-1257: serialize, and run everything again without the
\* promotion when the marker was in the input and is not in the output.
ReturnFull ==
  /\ post.pc = "return"
  /\ post' = IF FractionLost(post.raw, post.tree.kids)
             THEN [post EXCEPT !.pc = "done",
                               !.log = @ \o PassesWithoutDelimiters,
                               !.result = postProcessOmmlWithoutDelimiters(post.raw)]
             ELSE [post EXCEPT !.pc = "done", !.result = post.tree.kids]
  /\ UNCHANGED handlerVars

NextOmml ==
  \/ Parse
  \/ RemoveNonMathElements
  \/ FixRunIntegrals
  \/ FixNormSupSubRuns
  \/ FixEmptyNaryIntegrand
  \/ ForceIntegralLimitsUnderOver
  \/ WrapParensInScripts
  \/ WrapSquareBracketsAroundTall
  \/ WrapBraceBeforeMatrix
  \/ FixBracketedFraction
  \/ PromoteDelimiters
  \/ RepairInvalidScripts
  \/ RemoveUndefinedStyle
  \/ NormalizeOmmlTextNodesDom
  \/ ReturnFull

SpecOmml == InitOmml /\ [][NextOmml]_vars

(* ------------------------- the passes on their own --------------------- *)

\* One pass applied to a parsed fragment, and the same pass applied to its
\* own result.
MaxApplications == 2

InitPass ==
  /\ InitHandler
  /\ \E fragment \in Fragments :
       post = [NoPost EXCEPT !.pc = "pass", !.raw = fragment, !.tree = El("root", fragment)]

ApplyPass(pass, out) ==
  /\ post.pc = "pass"
  /\ Len(post.log) < MaxApplications
  /\ \A i \in 1..Len(post.log) : post.log[i] = pass
  /\ post' = [post EXCEPT !.tree = out, !.log = Append(@, pass)]
  /\ UNCHANGED handlerVars

ApplyPromoteDelimiters == ApplyPass("promoteDelimiters", promoteDelimiters(post.tree))
ApplyRepairInvalidScripts == ApplyPass("repairInvalidScripts", repairInvalidScripts(post.tree))
ApplyFixRunIntegrals == ApplyPass("fixRunIntegrals", fixRunIntegrals(post.tree))
ApplyRemoveNonMathElements == ApplyPass("removeNonMathElements", removeNonMathElements(post.tree))
ApplyFixNormSupSubRuns == ApplyPass("fixNormSupSubRuns", fixNormSupSubRuns(post.tree))
ApplyFixEmptyNaryIntegrand == ApplyPass("fixEmptyNaryIntegrand", fixEmptyNaryIntegrand(post.tree))
ApplyForceIntegralLimitsUnderOver ==
  ApplyPass("forceIntegralLimitsUnderOver", forceIntegralLimitsUnderOver(post.tree))
ApplyWrapParensInScripts == ApplyPass("wrapParensInScripts", wrapParensInScripts(post.tree))
ApplyWrapSquareBracketsAroundTall ==
  ApplyPass("wrapSquareBracketsAroundTall", wrapSquareBracketsAroundTall(post.tree))
ApplyWrapBraceBeforeMatrix == ApplyPass("wrapBraceBeforeMatrix", wrapBraceBeforeMatrix(post.tree))
ApplyFixBracketedFraction == ApplyPass("fixBracketedFraction", fixBracketedFraction(post.tree))
ApplyRemoveUndefinedStyle == ApplyPass("removeUndefinedStyle", removeUndefinedStyle(post.tree))
ApplyNormalizeOmmlTextNodesDom ==
  ApplyPass("normalizeOmmlTextNodesDom", normalizeOmmlTextNodesDom(post.tree))

NextPass ==
  \/ ApplyPromoteDelimiters
  \/ ApplyRepairInvalidScripts
  \/ ApplyFixRunIntegrals
  \/ ApplyRemoveNonMathElements
  \/ ApplyFixNormSupSubRuns
  \/ ApplyFixEmptyNaryIntegrand
  \/ ApplyForceIntegralLimitsUnderOver
  \/ ApplyWrapParensInScripts
  \/ ApplyWrapSquareBracketsAroundTall
  \/ ApplyWrapBraceBeforeMatrix
  \/ ApplyFixBracketedFraction
  \/ ApplyRemoveUndefinedStyle
  \/ ApplyNormalizeOmmlTextNodesDom

SpecPass == InitPass /\ [][NextPass]_vars

(* --------------------------- run() on its own -------------------------- *)

\* The strings the converter may hand to run(): up to MaxChunks chunks, well
\* formed or not. A string is well formed when the declaration comes first
\* and every <m:oMath> is closed.
MaxChunks == 3
OmmlChunks == {XML_DECL, " ", OMATH_NS, M_RUN, M_FRACTION, OMATH_CLOSE}
ChunkStrings == SiblingLists(OmmlChunks, MaxChunks)

RECURSIVE OpenAfter(_, _)
OpenAfter(s, i) ==
  IF i = 0 THEN 0
  ELSE OpenAfter(s, i - 1)
       + (IF s[i] = OMATH_NS THEN 1 ELSE IF s[i] = OMATH_CLOSE THEN -1 ELSE 0)
WellFormed(s) ==
  /\ OpenAfter(s, Len(s)) = 0
  /\ \A i \in 1..Len(s) : OpenAfter(s, i) >= 0
  /\ \A i \in 1..Len(s) : s[i] = XML_DECL => \A j \in 1..(i - 1) : s[j] \in WhiteSpace

\* parseOmmlFragment never fails on a well-formed string; on any other the
\* parser decides.
PostOutcomesOf(raw) == IF WellFormed(raw) THEN PostOutcomes \ {"null"} ELSE PostOutcomes

\* const raw = mml2omml(ml)
InitRun ==
  /\ InitHandler
  /\ \E raw \in ChunkStrings \cup {THROWN} :
       post = [NoPost EXCEPT !.pc = "run", !.raw = raw]

\* postProcessOmml(raw) ?? raw, then finalizeOmmlString; log keeps what the
\* repair did.
RunOnce ==
  /\ post.pc = "run"
  /\ \E po \in PostOutcomesOf(post.raw) :
       post' = [post EXCEPT !.pc = "ran", !.log = <<po>>, !.result = RunConverter(post.raw, po)]
  /\ UNCHANGED handlerVars

\* The value leaves tryMathMlToOmml, through the catch when run() threw.
RunReturn ==
  /\ post.pc = "ran"
  /\ post' = [post EXCEPT !.pc = "returned", !.result = TryCatch(@)]
  /\ UNCHANGED handlerVars

NextRun == RunOnce \/ RunReturn

SpecRun == InitRun /\ [][NextRun]_vars

(* ---------------------------- the re-scan loops ------------------------ *)

\* One container in one of the three loops "while (changed)": every step is
\* one scan of its children, which collapses at the first place that
\* matches and starts again, or finds nothing and leaves the loop. The
\* loop runs to its end without waiting for anything, hence the fairness.
ScanLoops == {"promoteDelimitersInContainer", "wrapSquareBracketsAroundTall", "wrapBraceBeforeMatrix"}

InitScan ==
  /\ InitHandler
  /\ \E fragment \in Fragments, loop \in ScanLoops :
       post = [NoPost EXCEPT !.pc = "scan", !.raw = fragment, !.tree = fragment[1], !.log = <<loop>>]

Scan(loop, at, collapsed) ==
  /\ post.pc = "scan" /\ post.log = <<loop>>
  /\ post' = IF at = 0 THEN [post EXCEPT !.pc = "exit"] ELSE [post EXCEPT !.tree.kids = collapsed]
  /\ UNCHANGED handlerVars

ScanPromote ==
  \E at \in {FirstIndex(post.tree.kids, PromotableAt)} :
    Scan("promoteDelimitersInContainer", at, PromoteAt(post.tree.kids, at))
ScanSquare ==
  \E at \in {FirstIndex(post.tree.kids, SquareAt)} :
    Scan("wrapSquareBracketsAroundTall", at, SquareCollapseAt(post.tree.kids, at))
ScanBrace ==
  \E at \in {FirstIndex(post.tree.kids, BraceAt)} :
    Scan("wrapBraceBeforeMatrix", at, BraceCollapseAt(post.tree.kids, at))

NextScan == ScanPromote \/ ScanSquare \/ ScanBrace

SpecScan == InitScan /\ [][NextScan]_vars /\ WF_vars(NextScan)

(* ------------------------------ properties ----------------------------- *)

Replacements == math.replacements
Tokens == {Replacements[i].token : i \in 1..Len(Replacements)}

\* The step ends the conversion of a math element (createMathPlaceholder returns).
ElementDone == pc \in {"walk", "build"} /\ pc' = "walk" /\ last'.kind = "math" /\ last' # last

\* The step is an iteration of the splice loop, for the replacement Current.
InSpliceStep == pc = "splice" /\ idx <= Len(Replacements) /\ idx' = idx + 1
Current == Replacements[idx]

\* C2: within one MathContext the tokens are pairwise distinct, the i-th
\* replacement carries the token numbered i, the counter is one more than
\* the number of replacements, and a step changes the context only by
\* appending one replacement and adding one to the counter, exactly when an
\* element was converted to OMML (never for a null conversion).
C2_TokensUnique ==
  /\ [](/\ math.nextId = Len(Replacements) + 1
        /\ \A i \in 1..Len(Replacements) :
             /\ Replacements[i].token = Token(i)
             /\ \A j \in 1..Len(Replacements) :
                  i # j => Replacements[i].token # Replacements[j].token)
  /\ [][/\ math'.nextId >= math.nextId
        /\ IF ElementDone /\ Truthy(last'.omml)
           THEN /\ math'.nextId = math.nextId + 1
                /\ Len(math'.replacements) = Len(Replacements) + 1
                /\ SubSeq(math'.replacements, 1, Len(Replacements)) = Replacements
                /\ math'.replacements[Len(Replacements) + 1].token \notin Tokens
           ELSE math' = math]_vars

C2_Witness ==
  /\ pc = "done" /\ Len(Replacements) = 2
  /\ Replacements[1].token = "__MATH_000001__"
  /\ Replacements[2].token = "__MATH_000002__"

\* C3 (as claimed): every token assigned during the conversion occurs
\* exactly once in the document text before the splice.
C3_TokenExactlyOnce ==
  pc = "patch" => \A i \in 1..Len(Replacements) : Count(xml, Replacements[i].token) = 1

\* The run element around the token of replacement rep: from the last plain
\* <w:r> opening tag before the token through the first </w:r> after it.
EnclosingRunOpen(x, rep) == LastIndexOf(x, {W_R}, IndexOf(x, {rep.token}, 1))
EnclosingRunClose(x, rep) == IndexOf(x, {W_R_CLOSE}, IndexOf(x, {rep.token}, 1))

\* C1 (as claimed): an iteration of the splice loop whose token occurs in the
\* markup replaces the whole enclosing run element, from its <w:r> through
\* its </w:r>, by the OMML fragment, leaves every chunk outside that run as
\* it was, and leaves no occurrence of the token.
RunReplaced ==
  (InSpliceStep /\ Count(xml, Current.token) > 0) =>
    /\ xml' = SubSeq(xml, 1, EnclosingRunOpen(xml, Current) - 1)
              \o SafeOmml(Current.omml, Current.displayMode)
              \o SubSeq(xml, EnclosingRunClose(xml, Current) + 1, Len(xml))
    /\ Count(xml', Current.token) = 0

C1_WholeRunReplaced == [][RunReplaced]_vars

\* The LaTeX source of the element converted last.
LatexSource == extractLatexFromKatex(el)

\* C4 (as claimed): when the conversion of an element that has a LaTeX
\* source returns null, no token is allocated, the export goes on, and the
\* document holds at the element's position one paragraph made of one
\* monospaced run with the (sanitized) LaTeX source.
C4_FallbackVisible ==
  (pc = "walk" /\ last.kind = "math" /\ ~Truthy(last.omml) /\ LatexSource # NULL) =>
     /\ math.nextId = last.id
     /\ status = 0
     /\ Len(children) = last.paras + 1
     /\ children[Len(children)] = <<TextRun(sanitizeXmlText(LatexSource), FALSE, TRUE)>>

\* A MathML string with at least one <mfrac>.
ContainsMfrac(mathML) == mathML # NULL /\ Includes(mathML, {MFRAC, MTEXT_MFRAC})
\* An OMML result that is null (or the empty string, which every caller
\* takes for null) or has an <m:f> fraction construct.
NullOrFraction(omml) == ~Truthy(omml) \/ Includes(omml, {M_FRACTION})

\* C5 (as claimed): for a MathML input with an <mfrac>, tryMathMlToOmml
\* returns null or a fragment with an <m:f>, and so does buildOmmlFromElement
\* for an element that carries such MathML.
C5_FractionPreserved ==
  /\ \A i \in 1..Len(calls) :
       (calls[i].k = "conv" /\ calls[i].ret # PENDING /\ ContainsMfrac(calls[i].src))
          => NullOrFraction(calls[i].ret)
  /\ (pc = "walk" /\ last.kind = "math" /\ ContainsMfrac(el.mathml)) => NullOrFraction(last.omml)

\* The log of the external calls of one element: entry i is a call of the
\* converter, the first or the second of its tryMathMlToOmml.
IsConv(i) == calls[i].k = "conv"
IsFirst(i) == IsConv(i) /\ calls[i].attempt = 1
\* tryMathMlToOmml returned after the converter call of entry i, with a
\* non-empty result.
Returned(i) == IsConv(i) /\ calls[i].ret # PENDING
Yielded(i) == Returned(i) /\ Truthy(calls[i].ret)
\* The converter is called once more after the call of entry i.
Retried(i) ==
  \/ i < Len(calls) /\ IsConv(i + 1) /\ calls[i + 1].attempt = 2
  \/ i = Len(calls) /\ pc = "build" /\ pend.k = "conv" /\ pend.attempt = 2
RetryInput(i) == IF i < Len(calls) THEN calls[i + 1].ml ELSE pend.ml
\* The first output exists and lacks the marker "<m:f".
LacksMarker(i) == calls[i].out # THROWN /\ ~Includes(calls[i].out, {M_FRACTION, M_FUNC})
WithoutFences(ml) == SelectSeq(ml, LAMBDA c : c \notin {MO_FENCE, MO_DATAFENCE})
AtMostTwice ==
  \A i \in 1..Len(calls) :
    IsConv(i) => /\ calls[i].attempt \in {1, 2}
                 /\ calls[i].attempt = 2 => (i > 1 /\ IsFirst(i - 1) /\ ~Retried(i))

\* C6 (as claimed): the converter is called a second time exactly when the
\* pre-cleaned MathML has <mfrac and the first output lacks <m:f, on the
\* input without its fence-delimiter elements, and never a third time.
C6_RetryWheneverFractionLost ==
  /\ AtMostTwice
  /\ \A i \in 1..Len(calls) :
       IsFirst(i) =>
         /\ Retried(i) <=> (Includes(calls[i].ml, {MFRAC}) /\ LacksMarker(i))
         /\ Retried(i) => RetryInput(i) = WithoutFences(calls[i].ml)

\* C6: the converter is called a second time exactly when the pre-cleaned
\* MathML has <mfrac, the first output lacks <m:f, and the pre-cleaned
\* MathML still holds a fence-delimiter element to strip; the second call is
\* on the input without those elements, and there is never a third.
C6_RetryOnlyIfFenceStripped ==
  /\ AtMostTwice
  /\ \A i \in 1..Len(calls) :
       IsFirst(i) =>
         /\ Retried(i) <=> /\ Includes(calls[i].ml, {MFRAC})
                           /\ LacksMarker(i)
                           /\ Includes(calls[i].ml, {MO_FENCE, MO_DATAFENCE})
         /\ Retried(i) => /\ RetryInput(i) = WithoutFences(calls[i].ml)
                          /\ RetryInput(i) # calls[i].ml

C6_Witness ==
  /\ Len(calls) >= 2 /\ IsFirst(1) /\ IsConv(2) /\ calls[2].attempt = 2
  /\ Includes(calls[1].ml, {MO_DATAFENCE}) /\ ~Includes(calls[2].ml, {MO_DATAFENCE})
  /\ Returned(2)

\* The sources of the element being converted, or converted last.
Embedded == extractMathMlFromKatex(el)
MatrixLike == LatexSource # NULL /\ Includes(LatexSource, {TEX_BEGIN_PMATRIX, TEX_BEGIN_MATRIX})
\* Entry i is a call of tryMathMlToOmml on the embedded MathML as such, first
\* ("dom") or last ("any"); the other calls are on regenerated MathML.
OnEmbedded(i) == IsFirst(i) /\ calls[i].stage \in {"dom", "any"}
OnRegenerated(i) == IsConv(i) /\ calls[i].stage \in {"regen", "alt"}
IsRegeneration(i) == calls[i].k = "katex"
\* The conversion of entry i gave a result that buildOmmlFromElement returns:
\* non-empty and, for the first regeneration of LaTeX with \frac{, marked.
Accepted(i) ==
  /\ Yielded(i)
  /\ calls[i].stage = "regen" /\ Includes(LatexSource, {TEX_FRAC})
       => Includes(calls[i].ret, {M_FRACTION, M_FUNC})

\* Embedded MathML first, for LaTeX without a matrix-like environment.
EmbeddedFirst ==
  (~MatrixLike /\ Truthy(Embedded) /\ calls # <<>>) =>
     /\ OnEmbedded(1) /\ calls[1].stage = "dom" /\ calls[1].src = Embedded
     /\ \A i \in 1..Len(calls) :
          (calls[i].stage = "dom" /\ Yielded(i)) =>
             /\ i = Len(calls) /\ pc = "walk" /\ last.omml = calls[i].ret
             /\ \A j \in 1..Len(calls) : ~IsRegeneration(j)

\* Regeneration first, for LaTeX with a matrix-like environment.
RegenerationFirst ==
  (MatrixLike /\ calls # <<>>) =>
     /\ IsRegeneration(1) /\ calls[1].ml = normalizeDocxLatex(LatexSource)
     /\ \A i \in 1..Len(calls) : IsConv(i) => calls[i].stage # "dom"

OthersUntouched ==
  pc \in {"walk", "build"} =>
    /\ pc' \in {"walk", "build", "patch"}
    /\ Len(math'.replacements) >= Len(Replacements)
    /\ SubSeq(math'.replacements, 1, Len(Replacements)) = Replacements
    /\ Len(children') >= Len(children)
    /\ SubSeq(children', 1, Len(children)) = children

C7_NoExceptionPropagates ==
  /\ [](status # 500 /\ last.kind # "thrown" /\ (pc = "done" => status = 200))
  /\ [][OthersUntouched]_vars

C7_Witness ==
  /\ pc = "walk" /\ nodes = 2 /\ last.kind = "math" /\ last.omml = NULL
  /\ \E i \in 1..Len(calls) : calls[i].out = THROWN
  /\ Len(Replacements) = 1 /\ Len(children) >= 1
  /\ children[1] = <<TextRun(<<Replacements[1].token>>, FALSE, FALSE)>>

\* The token of the current replacement is not in the markup, or no run
\* start before it or no run end after it is found.
Unlocatable ==
  \/ Count(xml, Current.token) = 0
  \/ \A i \in 1..IndexOf(xml, {Current.token}, 1) : xml[i] \notin {W_R, W_RPR, W_RFONTS}
  \/ \A i \in IndexOf(xml, {Current.token}, 1)..Len(xml) : xml[i] # W_R_CLOSE

\* C8: an iteration of the splice loop whose token cannot be located, or
\* around which no run is found, leaves the markup as it is; no iteration
\* raises an error or ends the loop, so every replacement gets its
\* iteration, and an iteration whose token is located splices it.
SkipOrSplice ==
  InSpliceStep =>
    /\ pc' = "splice" /\ status' = status /\ math' = math
    /\ Unlocatable => xml' = xml
    /\ ~Unlocatable => Count(xml', Current.token) < Count(xml, Current.token)

C8_SkipLeavesMarkup ==
  /\ [][SkipOrSplice]_vars
  /\ []((pc = "done" /\ Replacements # <<>>) => (idx = Len(Replacements) + 1 /\ status = 200))

C8_Witness ==
  /\ pc = "done" /\ status = 200 /\ Len(Replacements) = 2
  /\ children = <<<<TextRun(<<Token(2)>>, FALSE, FALSE)>>>>
  /\ Count(xml, Token(1)) = 0 /\ Count(xml, Token(2)) = 0
  /\ Count(xml, OMATH) = 1

\* The fragment spliced for the current replacement, and what the claim
\* wants in the markup for it.
Fragment == cleanOmml(Current.omml)
Wrapped(frag) == <<OMATHPARA>> \o frag \o <<OMATHPARA_CLOSE>>

\* C10: an iteration that splices puts in the markup the fragment wrapped in
\* one math paragraph when the display flag is set and the fragment has
\* none, the fragment as it is when it already has one or the flag is not
\* set; a display fragment ends with exactly one math paragraph.
SplicedOnceWrapped ==
  (InSpliceStep /\ xml' # xml) =>
    \E s \in 1..Len(xml), e \in 1..Len(xml) :
      \E seg \in {Fragment, Wrapped(Fragment)} :
        /\ s <= e
        /\ xml' = SubSeq(xml, 1, s - 1) \o seg \o SubSeq(xml, e + 1, Len(xml))
        /\ ~Current.displayMode => seg = Fragment
        /\ Current.displayMode =>
             /\ Count(seg, OMATHPARA) = 1 /\ Count(seg, OMATHPARA_CLOSE) = 1
             /\ Count(Fragment, OMATHPARA) = 1 => seg = Fragment

C10_WrapOnce == [][SplicedOnceWrapped]_vars

C10_Witness ==
  /\ pc = "splice" /\ idx = 2 /\ Replacements[1].displayMode
  /\ Count(Replacements[1].omml, OMATHPARA) = 1
  /\ Count(xml, OMATHPARA) = 1 /\ Count(xml, Replacements[1].token) = 0

\* The opening tags of the root element, by the number of declarations of the
\* math namespace they carry.
RootTags == {W_DOCUMENT, W_DOCUMENT_M, W_DOCUMENT_MM}
DeclaredOnce(x) == x # <<>> /\ x[1] = W_DOCUMENT_M /\ \A i \in 2..Len(x) : x[i] \notin RootTags

\* patchDocxWithMath is entered: with no replacement it returns the document
\* as it is, otherwise the declaration is injected only when it is absent and
\* nothing but the root tag changes.
NamespaceStep ==
  pc = "patch" =>
    IF Replacements = <<>> THEN xml' = xml /\ pc' = "done"
    ELSE /\ DeclaredOnce(xml')
         /\ Len(xml') = Len(xml) /\ \A i \in 2..Len(xml) : xml'[i] = xml[i]
         /\ DeclaredOnce(xml) => xml' = xml

\* C11: after patchDocxWithMath ran with a non-empty replacement list the
\* root element declares the math namespace exactly once (injected when
\* absent, not duplicated when present); with an empty list the document is
\* returned unchanged.
C11_NamespaceOnce ==
  /\ [][NamespaceStep]_vars
  /\ []((pc \in {"splice", "done"} /\ Replacements # <<>>) => DeclaredOnce(xml))

C11_Witness ==
  /\ pc = "done" /\ Replacements # <<>> /\ DeclaredOnce(xml) /\ Includes(xml, {OMATH})

\* The fragments and the runs that come from request r.
FromRequest(r) == {RequestRun(r), ToString(r)}
Started(r) == reqs[r].pc \notin {"idle", "json"}

\* C12: two requests in flight are isolated: the context of each counts
\* from 1 over its own formulas only, its replacement list holds only
\* fragments of its own formulas, and its document holds only its own text
\* and fragments.
C12_RequestsIsolated ==
  \A r \in Requests : \A o \in Others(r) :
    Started(r) =>
      LET reps == reqs[r].math.replacements
      IN /\ reqs[r].math.nextId = Len(reps) + 1
         /\ \A i \in 1..Len(reps) :
              /\ reps[i].token = Token(i)
              /\ reps[i].omml = RequestOmml(r)
              /\ ~Includes(reps[i].omml, FromRequest(o))
         /\ ~Includes(reqs[r].xml, FromRequest(o))
         /\ reqs[r].pc = "done" =>
              /\ Count(reqs[r].xml, RequestRun(r)) = Len(reps)
              /\ \A i \in 1..Len(reps) : Count(reqs[r].xml, reps[i].token) = 0

C12_Witness ==
  /\ reqs[1].pc = "done" /\ Len(reqs[1].math.replacements) = 2
  /\ reqs[2].pc = "reading" /\ Len(reqs[2].math.replacements) = 1
  /\ reqs[1].math.replacements[1].token = reqs[2].math.replacements[1].token
  /\ Count(reqs[1].xml, RequestRun(1)) = 2

\* LaTeX that is one pmatrix environment around a body, and the explicit
\* wrapping of that body the claim gives for it.
IsPmatrix(tex) ==
  /\ tex # NULL /\ Len(tex) >= 2
  /\ tex[1] = TEX_BEGIN_PMATRIX /\ tex[Len(tex)] = TEX_END_PMATRIX
  /\ \A i \in 2..(Len(tex) - 1) : tex[i] \notin {TEX_BEGIN_PMATRIX, TEX_END_PMATRIX}
ExplicitWrapping(tex) ==
  <<TEX_LEFT, "(", TEX_BEGIN_MATRIX>> \o SubSeq(tex, 2, Len(tex) - 1)
  \o <<TEX_END_MATRIX, TEX_RIGHT, ")">>

Applies(pass) == post'.log = Append(post.log, pass)
Applied(pass) == post.log # <<>> /\ post.log[Len(post.log)] = pass
AppliedTwice(pass) == post.pc = "pass" /\ post.log = <<pass, pass>>

PromotedAgain ==
  Applied("promoteDelimiters") /\ Applies("promoteDelimiters") => post'.tree = post.tree

\* C14: applying the delimiter promotion over every container to a tree
\* that the promotion produced leaves that tree as it is.
C14_PromotionIdempotent == [][PromotedAgain]_vars

\* The promotion ran twice and its first run collapsed something.
C14_Witness ==
  /\ AppliedTwice("promoteDelimiters")
  /\ post.tree # El("root", post.raw)

RECURSIVE HasInvalidScript(_)
HasInvalidScript(n) ==
  \/ IsInvalidScript(n)
  \/ \E i \in 1..Len(n.kids) : HasInvalidScript(n.kids[i])

Baseless(n) == n.tag \in ScriptLocals /\ ~HasSlot(n, "e")
Slotless(n) == n.tag \in ScriptLocals /\ HasSlot(n, "e") /\ LacksRequiredSlot(n)

\* The children of a container with every construct without a base taken
\* out and every construct with a base and without a required slot
\* replaced by the children of its base.
RepairedChildren(ns) ==
  Flatten([i \in 1..Len(ns) |->
    IF Baseless(ns[i]) THEN <<>>
    ELSE IF Slotless(ns[i]) THEN FirstChild(ns[i], "e").kids
    ELSE <<ns[i]>>])

NothingToRepairIn(ns) == \A i \in 1..Len(ns) : ~HasInvalidScript(ns[i])

ScriptsRepaired ==
  Applies("repairInvalidScripts") =>
    /\ ~HasInvalidScript(post'.tree)
    /\ NothingToRepairIn(RepairedChildren(post.tree.kids[1].kids)) =>
         post'.tree.kids[1].kids = RepairedChildren(post.tree.kids[1].kids)

\* C15: repairInvalidScripts takes a script construct without a base out of
\* its parent with all it holds, puts the children of the base, in order,
\* in the place of a construct that has a base and lacks a required slot,
\* and leaves no construct without its base or a required slot in the tree.
C15_ScriptsRepaired == [][ScriptsRepaired]_vars

\* The repair ran on a math zone with a construct without a base and one
\* without a required slot among its children.
C15_Witness ==
  /\ post.pc = "pass"
  /\ post.log = <<"repairInvalidScripts">>
  /\ \E i, j \in 1..Len(post.raw[1].kids) :
       Baseless(post.raw[1].kids[i]) /\ Slotless(post.raw[1].kids[j])
  /\ NothingToRepairIn(RepairedChildren(post.raw[1].kids))
  /\ post.tree.kids[1].kids = RepairedChildren(post.raw[1].kids)

\* Runs i, i+1 and i+2 hold the integral glyph, digits and the infinity
\* glyph, and no other child is a run that begins with the integral glyph.
IntegralTripleAt(ns, i) ==
  /\ i + 2 <= Len(ns)
  /\ \A k \in i..(i + 2) : IsElement(ns[k]) /\ isM(ns[k], "r")
  /\ TextAt(ns, i) = <<INTEGRAL>>
  /\ IsDigits(TextAt(ns, i + 1))
  /\ TextAt(ns, i + 2) = <<INFINITY>>
  /\ \A k \in 1..Len(ns) : k # i => ~IsIntegralRun(ns[k])

\* An n-ary of the integral with the digits below, infinity above, the
\* limits placed under and over, and nothing in its integrand.
IntegralWithLimits(n, digits) ==
  /\ n.tag = "nary"
  /\ FirstChild(FirstChild(n, "naryPr"), "chr").val = <<INTEGRAL>>
  /\ FirstChild(FirstChild(n, "naryPr"), "limLoc").val = <<"undOvr">>
  /\ Len(FirstChild(n, "sub").kids) = 1 /\ textContent(FirstChild(n, "sub")) = digits
  /\ Len(FirstChild(n, "sup").kids) = 1 /\ textContent(FirstChild(n, "sup")) = <<INFINITY>>
  /\ FirstChild(n, "e") # NoNode /\ FirstChild(n, "e").kids = <<>>

TripleCollapsed ==
  Applies("fixRunIntegrals") =>
    LET before == post.tree.kids[1].kids
        after == post'.tree.kids[1].kids
    IN \A i \in 1..Len(before) :
         IntegralTripleAt(before, i) =>
           /\ Len(after) = Len(before) - 2
           /\ IntegralWithLimits(after[i], TextAt(before, i + 1))
           /\ SubSeq(after, 1, i - 1) = SubSeq(before, 1, i - 1)
           /\ SubSeq(after, i + 1, Len(after)) = SubSeq(before, i + 3, Len(before))

\* C16: fixRunIntegrals puts one n-ary in the place of three sibling runs
\* holding the integral glyph, digits and the infinity glyph, with the
\* digits in its subscript, infinity in its superscript, limits under and
\* over and an empty integrand, and leaves the other siblings as they were.
C16_TripleCollapsed == [][TripleCollapsed]_vars

\* fixRunIntegrals ran on a math zone with the three runs between two
\* other runs.
C16_Witness ==
  /\ post.pc = "pass"
  /\ post.log = <<"fixRunIntegrals">>
  /\ IntegralTripleAt(post.raw[1].kids, 2)
  /\ Len(post.raw[1].kids) = 5
  /\ Len(post.tree.kids[1].kids) = 3

\* postProcessOmml has returned what it made of a fragment that parses.
Repaired == post.pc = "done" /\ post.raw # Malformed

\* A delimiter construct with these begin and end characters whose content
\* is one construct of this kind.
DelimiterAround(n, open, close, local) ==
  /\ n.tag = "d"
  /\ FirstChild(FirstChild(n, "dPr"), "begChr").val = <<open>>
  /\ FirstChild(FirstChild(n, "dPr"), "endChr").val = <<close>>
  /\ Len(FirstChild(n, "e").kids) = 1
  /\ FirstChild(n, "e").kids[1].tag = local

\* The run at i opens a pair of the registry, the next element is tall and
\* the element after it is the run that closes the pair; the output has
\* one delimiter construct for them, and nothing else when the three were
\* alone in the math zone.
CollapsedInOutput(before, after, i) ==
  LET j == nextElementIndex(before, i + 1)
      k == nextElementIndex(before, j + 1)
  IN /\ \E h \in 1..Len(after) :
          DelimiterAround(after[h], runTextIfSingleChar(before[i]),
                          runTextIfSingleChar(before[k]), before[j].tag)
     /\ Len(before) = 3 => Len(after) = 1

\* C17: from converter output without a fraction marker, an open run, one
\* tall construct and the matching close run that follow each other in a
\* container come out of postProcessOmml as one stretchy delimiter with
\* that pair around that construct, and no open or close run is left over.
C17_TripleBecomesDelimiter ==
  Repaired /\ ~IncludesFractionMarker(post.raw) =>
    \A i \in 1..Len(post.raw[1].kids) :
      PromotableAt(post.raw[1].kids, i) =>
        CollapsedInOutput(post.raw[1].kids, post.result[1].kids, i)

\* The fragment had a fraction marker and the tree the passes made of it,
\* which post.tree still is when postProcessOmml has returned, has none.
MarkerVanished ==
  Repaired /\ IncludesFractionMarker(post.raw) /\ ~IncludesFractionMarker(post.tree.kids)

\* The passes ran a second time, all but the promotion, after a first run.
RanAgainWithoutPromotion ==
  /\ Len(post.log) > Len(PassesWithoutDelimiters)
  /\ SubSeq(post.log, Len(post.log) - Len(PassesWithoutDelimiters) + 1, Len(post.log))
       = PassesWithoutDelimiters

\* C18: when the converter output has a fraction marker and the tree made
\* by the whole sequence of passes has none, postProcessOmml runs the
\* sequence again on the converter output without the delimiter promotion
\* and returns what that second run gives.
C18_FallbackWithoutPromotion ==
  MarkerVanished =>
    /\ RanAgainWithoutPromotion
    /\ post.result = postProcessOmmlWithoutDelimiters(post.raw)

\* A fraction under a script construct without a base went with it, and
\* the second run has returned.
C18_Witness == MarkerVanished /\ RanAgainWithoutPromotion

Promoted == \E i \in 1..Len(post.log) : post.log[i] = "promoteDelimiters"

\* C19: postProcessOmml runs the delimiter promotion only once the nine
\* passes before it have run, only when the bracketed-fraction
\* reconstruction rebuilt nothing, and only when the converter output has
\* no fraction marker.
C19_PromotionOnlyWithoutFraction ==
  post.pc # "pass" /\ Promoted =>
    /\ SubSeq(post.log, 1, 10) = SubSeq(Passes, 1, 10)
    /\ ~post.bracketed
    /\ ~IncludesFractionMarker(post.raw)

\* A [ ] delimiter construct around one fraction with the integral first in
\* its numerator and the summation last in its denominator, after the text
\* that begins with 1+.
BracketedFractionOf(n) ==
  /\ n.tag = "d"
  /\ FirstChild(FirstChild(n, "dPr"), "begChr").val = <<"[">>
  /\ FirstChild(FirstChild(n, "dPr"), "endChr").val = <<"]">>
  /\ Len(FirstChild(n, "e").kids) = 1
  /\ LET f == FirstChild(n, "e").kids[1]
         num == FirstChild(f, "num").kids
         den == FirstChild(f, "den").kids
     IN /\ f.tag = "f"
        /\ Len(num) = 2 /\ isNaryWithChr(num[1], INTEGRAL) /\ isM(num[2], "r")
        /\ Len(den) = 2 /\ isNaryWithChr(den[2], SUMMATION)
        /\ OnePlusAt(getRunText(den[1])) = 1

\* C20: when a container of the converter output has, one after the other,
\* a [ run, an integral n-ary, a text run, possibly a 1+ run, a summation
\* n-ary and a ] run, the output of postProcessOmml has in their place one
\* [ ] delimiter around a fraction of the integral with its tail over the
\* 1+ text with the summation.
C20_BracketedFractionRebuilt ==
  Repaired =>
    \A i \in 1..Len(post.raw[1].kids) :
      IsBracketedAt(post.raw[1].kids, i) =>
        /\ \E h \in 1..Len(post.result[1].kids) : BracketedFractionOf(post.result[1].kids[h])
        /\ Len(post.result[1].kids)
             = Len(post.raw[1].kids) - BracketedAt(post.raw[1].kids, i).consume + 1

\* The step applies, to a tree a pass produced, the same pass again.
AppliedAgain(pass) == Applied(pass) /\ Applies(pass)
RepairedAgain ==
  \A pass \in {Passes[k] : k \in 1..Len(Passes)} \ {"promoteDelimiters"} :
    AppliedAgain(pass) => post'.tree = post.tree

\* C21 (as claimed): every repair pass other than the delimiter promotion,
\* applied to a tree that the same pass produced, leaves that tree as it is.
C21_PassesIdempotent == [][RepairedAgain]_vars

\* The same for the norm repair alone, for the bracketed fraction alone,
\* and for the ten other passes.
NormRepairedAgain == AppliedAgain("fixNormSupSubRuns") => post'.tree = post.tree
BracketedRebuiltAgain == AppliedAgain("fixBracketedFraction") => post'.tree = post.tree
C21_NormRepairedAgain == [][NormRepairedAgain]_vars
C21_BracketedRebuiltAgain == [][BracketedRebuiltAgain]_vars
C21_OthersIdempotent ==
  [][\A pass \in {Passes[k] : k \in 1..Len(Passes)}
         \ {"promoteDelimiters", "fixNormSupSubRuns", "fixBracketedFraction"} :
       AppliedAgain(pass) => post'.tree = post.tree]_vars

\* The n-ary constructs of a tree, in document order.
RECURSIVE NaryList(_)
NaryList(n) ==
  (IF IsElement(n) /\ isM(n, "nary") THEN <<n>> ELSE <<>>)
    \o Flatten([i \in 1..Len(n.kids) |-> NaryList(n.kids[i])])
\* The operator character and the limit placement an n-ary construct
\* declares in its properties; <<>> when it declares none.
Declared(nary, local) ==
  IF FirstChild(nary, "naryPr") = NoNode \/ FirstChild(FirstChild(nary, "naryPr"), local) = NoNode
  THEN <<>>
  ELSE FirstChild(FirstChild(nary, "naryPr"), local).val
\* Single, contour, double and triple integral.
IntegralFamily == {<<"U+222B">>, <<"U+222E">>, <<"U+222F">>, <<"U+2230">>}
OverIntegral(nary) == Declared(nary, "chr") \in IntegralFamily
IsLimLoc(n) == isM(n, "limLoc")
LimitsPlaced(before, after) ==
  /\ Len(NaryList(after)) = Len(NaryList(before))
  /\ \A k \in 1..Len(NaryList(before)) :
       LET old == NaryList(before)[k]
           new == NaryList(after)[k]
       IN /\ Declared(new, "chr") = Declared(old, "chr")
          /\ IF OverIntegral(old)
             THEN Declared(new, "limLoc") = <<"undOvr">>
             ELSE Declared(new, "limLoc") = Declared(old, "limLoc")
  /\ RemoveWhere(IsLimLoc, after) = RemoveWhere(IsLimLoc, before)

TextBesidesIntegrals(n) ==
  SelectSeq(textContent(n), LAMBDA c : c # INTEGRAL /\ c \notin WhiteSpace)
NaryParts == {"r", "t", "nary", "naryPr", "chr", "limLoc", "grow", "subHide", "supHide", "sub", "sup", "e"}
RECURSIVE OtherElements(_)
OtherElements(n) ==
  (IF IsElement(n) /\ n.tag \notin NaryParts THEN <<n.tag>> ELSE <<>>)
    \o Flatten([i \in 1..Len(n.kids) |-> OtherElements(n.kids[i])])

\* C23 (as claimed): fixRunIntegrals removes no text but the integral
\* glyphs it turns into n-ary constructs (the digits and the infinity glyph
\* it takes reappear in the limits), and removes no sibling that is not a
\* run.
C23_OnlyIntegralRunsCollapsed ==
  (post.pc = "pass" /\ post.log = <<"fixRunIntegrals">>)
    => /\ TextBesidesIntegrals(post.tree) = TextBesidesIntegrals(El("root", post.raw))
       /\ OtherElements(post.tree) = OtherElements(El("root", post.raw))

\* The two parts of it, one by one.
C23_TextKept ==
  (post.pc = "pass" /\ post.log = <<"fixRunIntegrals">>)
    => TextBesidesIntegrals(post.tree) = TextBesidesIntegrals(El("root", post.raw))
C23_OnlyRunsConsumed ==
  (post.pc = "pass" /\ post.log = <<"fixRunIntegrals">>)
    => OtherElements(post.tree) = OtherElements(El("root", post.raw))

\* The children of the math zone before and after the one pass applied.
ZoneBefore == post.raw[1].kids
ZoneAfter == post.tree.kids[1].kids
AppliedOnce(pass) == post.pc = "pass" /\ post.log = <<pass>>
Outside(ns) == SelectSeq(ns, LAMBDA n : IsElement(n) /\ ~isM(n, "r"))
IsFull(n) ==
  /\ isM(n, "nary")
  /\ FirstChild(n, "e") # NoNode
  /\ HasElementChild(FirstChild(n, "e"))

\* C24 (as claimed): fixEmptyNaryIntegrand moves plain runs only: the
\* children of a container that are not runs all stay its children, an
\* n-ary construct whose integrand has an element stays as it is, and a
\* run that reads d...x is never moved.
C24_AdoptsPlainRunOnly ==
  AppliedOnce("fixEmptyNaryIntegrand") =>
    /\ Len(Outside(ZoneAfter)) = Len(Outside(ZoneBefore))
    /\ \A i \in 1..Len(ZoneBefore) :
         (IsFull(ZoneBefore[i]) \/ IsDifferential(ZoneBefore[i]))
            => \E j \in 1..Len(ZoneAfter) : ZoneAfter[j] = ZoneBefore[i]

\* What holds of it: full n-ary constructs and differentials stay.
C24_FullAndDifferentialStay ==
  AppliedOnce("fixEmptyNaryIntegrand") =>
    \A i \in 1..Len(ZoneBefore) :
      (IsFull(ZoneBefore[i]) \/ IsDifferential(ZoneBefore[i]))
         => \E j \in 1..Len(ZoneAfter) : ZoneAfter[j] = ZoneBefore[i]

\* Square brackets among the children of a container: the nesting depth
\* after the first i children, the close bracket that balances the open
\* bracket at i, and a container whose brackets are balanced with a tall
\* construct inside every pair.
IsBracket(n, chr) == IsElement(n) /\ runTextIfSingleChar(n) = chr
RECURSIVE Depth(_, _)
Depth(ns, i) ==
  IF i = 0 THEN 0
  ELSE Depth(ns, i - 1) + (IF IsBracket(ns[i], "[") THEN 1 ELSE IF IsBracket(ns[i], "]") THEN -1 ELSE 0)
BalancedClose(ns, i) ==
  CHOOSE j \in (i + 1)..Len(ns) :
    /\ Depth(ns, j) = Depth(ns, i - 1)
    /\ \A h \in i..(j - 1) : Depth(ns, h) > Depth(ns, i - 1)
WellBracketed(ns) ==
  /\ \E i \in 1..Len(ns) : IsBracket(ns[i], "[")
  /\ Depth(ns, Len(ns)) = 0
  /\ \A i \in 1..Len(ns) : Depth(ns, i) >= 0
  /\ \A i \in 1..Len(ns) :
       IsBracket(ns[i], "[") =>
         \E h \in (i + 1)..(BalancedClose(ns, i) - 1) : IsElement(ns[h]) /\ isTall(ns[h])
RECURSIVE BracketRuns(_)
BracketRuns(n) ==
  (IF IsBracket(n, "[") \/ IsBracket(n, "]") THEN <<n>> ELSE <<>>)
    \o Flatten([i \in 1..Len(n.kids) |-> BracketRuns(n.kids[i])])
TextBesidesBrackets(n) == SelectSeq(textContent(n), LAMBDA c : c \notin {"[", "]"})

\* C25 (as claimed): when the square brackets of a container are balanced
\* and every pair has a tall construct inside, wrapSquareBracketsAroundTall
\* leaves no bracket run behind, and keeps everything else in its order.
C25_BracketsPaired ==
  (AppliedOnce("wrapSquareBracketsAroundTall") /\ WellBracketed(ZoneBefore))
    => /\ BracketRuns(post.tree) = <<>>
       /\ TextBesidesBrackets(post.tree) = TextBesidesBrackets(El("root", post.raw))

\* What holds of it: without nesting, the pair becomes one delimiter
\* holding what was between the brackets, in order.
Nested(ns) == \E i \in 1..Len(ns) : Depth(ns, i) > 1
C25_FlatBracketsPaired ==
  (AppliedOnce("wrapSquareBracketsAroundTall") /\ WellBracketed(ZoneBefore) /\ ~Nested(ZoneBefore))
    => /\ BracketRuns(post.tree) = <<>>
       /\ TextBesidesBrackets(post.tree) = TextBesidesBrackets(El("root", post.raw))

\* A delimiter with an open brace and no closing character around one
\* matrix, and the children of a container read from left to right with
\* every open-brace run and the matrix next to it taken as such a
\* delimiter.
OneSided(matrix) ==
  El("d", << El("dPr", <<Pr("begChr", <<"{">>), Pr("endChr", <<>>), Pr("grow", <<"1">>)>>),
             El("e", <<matrix>>) >>)
IsBraceRun(n) ==
  /\ IsElement(n) /\ n.tag = "r"
  /\ \E k \in 1..Len(n.kids) :
       /\ n.kids[k].tag = "t"
       /\ \A h \in 1..(k - 1) : n.kids[h].tag # "t"
       /\ SelectSeq(n.kids[k].val, LAMBDA c : c \notin WhiteSpace) = <<"{">>
RECURSIVE Braced(_)
Braced(ns) ==
  IF Len(ns) < 2 THEN ns
  ELSE IF IsBraceRun(ns[1]) /\ ns[2].tag = "m"
       THEN <<OneSided(ns[2])>> \o Braced(SubSeq(ns, 3, Len(ns)))
       ELSE <<ns[1]>> \o Braced(Tail(ns))

\* C26: after wrapBraceBeforeMatrix every open-brace run with a matrix as
\* its next sibling has become, with that matrix, one delimiter with the
\* begin character { and an empty end character holding that matrix alone,
\* and the other children of the container are what and where they were.
C26_BraceBeforeMatrix ==
  AppliedOnce("wrapBraceBeforeMatrix") => ZoneAfter = Braced(ZoneBefore)

\* The pass ran on x { matrix y and gave x, the delimiter, y.
C26_Witness ==
  /\ AppliedOnce("wrapBraceBeforeMatrix")
  /\ Len(ZoneBefore) = 4
  /\ IsBraceRun(ZoneBefore[2]) /\ ZoneBefore[3] = Matrix
  /\ ZoneAfter = <<ZoneBefore[1], OneSided(Matrix), ZoneBefore[4]>>

\* The delimiter pairs the specification recognizes: parenthesis, square
\* bracket, curly brace, angle bracket, single and double bar.
RecognizedPairs ==
  {<<"(", ")">>, <<"[", "]">>, <<"{", "}">>, <<"U+27E8", "U+27E9">>, <<"|", "|">>,
   <<PARALLEL, PARALLEL>>}
ElementsOf(ns) == SelectSeq(ns, IsElement)
\* A script construct whose base has three or more element children, the
\* first and the last being runs with the two characters of a pair.
BaseDelimited(n, pair) ==
  /\ IsElement(n) /\ n.tag \in {"sSup", "sSub", "sSubSup"}
  /\ FirstChild(n, "e") # NoNode
  /\ LET inner == ElementsOf(FirstChild(n, "e").kids)
     IN /\ Len(inner) >= 3
        /\ runTextIfSingleChar(inner[1]) = pair[1]
        /\ runTextIfSingleChar(inner[Len(inner)]) = pair[2]
BaseWrapped(old, new, pair) ==
  LET inner == ElementsOf(FirstChild(old, "e").kids)
  IN /\ new.tag = old.tag
     /\ ElementsOf(FirstChild(new, "e").kids)
          = << El("d", << El("dPr", << Pr("begChr", <<pair[1]>>), Pr("endChr", <<pair[2]>>),
                                       Pr("grow", <<"1">>) >>),
                          El("e", SubSeq(inner, 2, Len(inner) - 1)) >>) >>
ScriptsWrapped(pairs) ==
  /\ Len(ZoneAfter) = Len(ZoneBefore)
  /\ \A i \in 1..Len(ZoneBefore) :
       IF \E pair \in pairs : BaseDelimited(ZoneBefore[i], pair)
       THEN \A pair \in pairs :
              BaseDelimited(ZoneBefore[i], pair) => BaseWrapped(ZoneBefore[i], ZoneAfter[i], pair)
       ELSE ZoneAfter[i] = ZoneBefore[i]

\* C27 (as claimed): after wrapParensInScripts the base of every script
\* construct that held three or more elements between the two runs of a
\* recognized pair holds one delimiter with those characters around the
\* former inner children in their order, and every other construct is as
\* it was.
C27_ScriptBasesWrapped == AppliedOnce("wrapParensInScripts") => ScriptsWrapped(RecognizedPairs)

\* What holds of it: the same for parentheses and curly braces only.
C27_ParensAndBracesWrapped ==
  AppliedOnce("wrapParensInScripts") => ScriptsWrapped({<<"(", ")">>, <<"{", "}">>})

\* The string without the XML declaration it begins with, with the
\* namespace attribute of every <m:oMath> taken out, and without white
\* space at its ends.
Stripped(raw) ==
  LET first == {i \in 1..Len(raw) : \A j \in 1..(i - 1) : raw[j] \in WhiteSpace}
      body == IF \E i \in first : raw[i] = XML_DECL
              THEN SubSeq(raw, 1 + (CHOOSE i \in first : raw[i] = XML_DECL), Len(raw))
              ELSE raw
      plain == [i \in 1..Len(body) |-> IF body[i] = OMATH_NS THEN OMATH ELSE body[i]]
      inside == {i \in 1..Len(plain) : plain[i] \notin WhiteSpace}
  IN IF inside = {} THEN <<>>
     ELSE SubSeq(plain, CHOOSE i \in inside : \A j \in inside : i <= j,
                        CHOOSE i \in inside : \A j \in inside : j <= i)
ParseFailed == post.log = <<"null">>

\* C28: when the fragment of the converter does not parse, run() yields
\* that fragment with its XML declaration and namespace attributes
\* stripped and nothing else changed (so nothing at all when the fragment
\* is empty), and that is what tryMathMlToOmml gets.
C28_RawWhenUnparseable ==
  (post.pc \in {"ran", "returned"} /\ ParseFailed)
    => /\ post.result = Stripped(post.raw)
       /\ Stripped(post.raw) = <<>> => ~Truthy(post.result)

\* The fragment had a declaration and a namespace attribute and did not
\* parse: the result is the fragment without them, fraction included.
C28_Witness ==
  /\ post.pc = "ran" /\ ParseFailed
  /\ post.raw = <<XML_DECL, OMATH_NS, M_FRACTION>>
  /\ post.result = <<OMATH, M_FRACTION>>

\* On the tree: a fragment that does not parse goes through no pass, and
\* postProcessOmml returns null.
C28_NoPassOnParseFailure ==
  (post.pc = "done" /\ post.raw = Malformed) => (post.log = <<>> /\ post.result = NULL)

\* C29: for a converter output with a fraction marker, the passes
\* postProcessOmml runs first are those of postProcessOmmlWithoutDelimiters
\* in the same order, the tree they make is the one
\* postProcessOmmlWithoutDelimiters makes, and so is what postProcessOmml
\* returns: when the first run lost the marker, the result has none.
C29_FallbackSameAsFirstRun ==
  (Repaired /\ IncludesFractionMarker(post.raw)) =>
    /\ SubSeq(post.log, 1, Len(PassesWithoutDelimiters)) = PassesWithoutDelimiters
    /\ post.tree.kids = postProcessOmmlWithoutDelimiters(post.raw)
    /\ post.result = post.tree.kids
    /\ MarkerVanished => ~IncludesFractionMarker(post.result)

\* The marker was lost, the passes ran again, and the result is the tree
\* of the first run, without a marker.
C29_Witness ==
  /\ MarkerVanished
  /\ Len(post.log) = 2 * Len(PassesWithoutDelimiters)
  /\ post.result = post.tree.kids
  /\ ~IncludesFractionMarker(post.result)

\* A scan that collapses leaves the container with fewer children, and the
\* scan that leaves the loop changes nothing.
ScanShrinksOrExits ==
  IF post'.pc = "exit"
  THEN post'.tree = post.tree
  ELSE Len(post'.tree.kids) < Len(post.tree.kids)

\* C30: each of the three re-scan loops ends on every container: a scan
\* that collapses strictly decreases the number of children of the
\* container, the first scan without a collapse leaves the loop, and the
\* loop is left in the end.
C30_ScansTerminate == [][ScanShrinksOrExits]_vars /\ <>(post.pc = "exit")

\* A loop was left after two collapses: ( m ) ( m ) promoted to two
\* delimiters.
C30_Witness ==
  /\ post.pc = "exit"
  /\ Len(post.raw[1].kids) = 6
  /\ Len(post.tree.kids) = 2

====
